---------------------------- MODULE Spec2Model ----------------------------
(***************************************************************************)
(* State-machine model of the scraper's fetch stage                        *)
(* (backend/download_by_category.py, backend/scrape_to_excel.py), of the   *)
(* pipeline driver and its children (backend/run_pipeline.py,              *)
(* login_and_save_cookies.py, extract_to_excel.py), of the cookie loaders, *)
(* of the extraction of the downloaded pages, of the dashboard             *)
(* (frontend/app.py) and of backend/redownload_incomplete.py.              *)
(* Specifications: Spec, a fetch script run on its own; SpecPipeline, a    *)
(* run of run_pipeline.py; SpecCookies, save_cookies and the loaders       *)
(* applied to a cookie file; SpecInventory, the inventory extraction and   *)
(* the row expansion applied to one page; SpecBatch, extract_to_excel.main *)
(* over the pages of data/html and the workbook it saves; SpecDash, the    *)
(* start and stop requests of the dashboard and its run threads            *)
(* (SpecDashFair with fair scheduling); SpecRedownload, a run of           *)
(* redownload_incomplete_files.                                            *)
(***************************************************************************)
EXTENDS Integers, Sequences, FiniteSets, TLC

(***************************************************************************)
(* Bounds and program constants                                            *)
(***************************************************************************)

\* Longest category manifest (rows of <category>.csv) the model draws.
MaxUrls == 3

\* MAX_CONCURRENT, the size of the per-category asyncio.Semaphore.  The
\* source sets 10; the model keeps the semaphore and scales its size so
\* that a manifest of MaxUrls rows has more work items than permits.
MAX_CONCURRENT == 2

\* The category manifests the scripts know.  download_by_category.py takes
\* every <name>.csv in sorted order; scrape_to_excel.py takes its fixed list
\* ['women', 'men', 'accessories', 'supplies'] and skips a missing manifest.
Cats == {"men", "women"}

\* Product URLs as lists of path segments: /p/<name>/<id>; a trailing "/"
\* is a last, empty segment.
UrlList == << <<"p", "a", "1">>, <<"p", "a", "2">>, <<"p", "b", "1", "">>, <<"p", "b", "2">> >>

Urls == {UrlList[j] : j \in 1..Len(UrlList)}

\* A manifest that is not on disk, and one that holds the rows m.
NoFile == [present |-> FALSE, rows |-> <<>>]
CsvFile(m) == [present |-> TRUE, rows |-> m]

(***************************************************************************)
(* Pure helpers                                                            *)
(***************************************************************************)

\* url.rstrip('/'): drop the trailing empty segments.
RECURSIVE rstrip_slash(_)
rstrip_slash(u) ==
    IF Len(u) > 0 /\ u[Len(u)] = "" THEN rstrip_slash(SubSeq(u, 1, Len(u) - 1)) ELSE u

\* pid = url.rstrip('/').split('/')[-1]
pid(u) == LET s == rstrip_slash(u) IN s[Len(s)]

Min(a, b) == IF a <= b THEN a ELSE b

\* The manifests the model draws: the first n rows of UrlList (sorted and
\* without duplicates, as save_category_links_to_csv writes them).
Manifests == {SubSeq(UrlList, 1, n) : n \in 0..Min(MaxUrls, Len(UrlList))}


\* Work items of the category being processed: the k-th row of its manifest.
TaskIds == 1..MaxUrls

\* What cookie.json may hold (the cookie source is not schema-controlled).
\*   missing    no such file
\*   empty      a file of zero bytes
\*   notjson    text that is not JSON
\*   emptylist  []
\*   emptydict  {}
\*   badrecord  a list with a record that lacks 'name' or 'value'
\*   valid      a list of records with 'name' and 'value'
CookieFiles == {"missing", "empty", "notjson", "emptylist", "emptydict", "badrecord", "valid"}

\* pipeline_steps of run_pipeline.main: 1 login_and_save_cookies.py,
\* 2 download_by_category.py, 3 extract_to_excel.py.
Steps == 1..3

(***************************************************************************)
(* State of a fetch script                                                 *)
(***************************************************************************)
VARIABLES
    script,       \* which fetch script runs: "download" or "scrape"
    cookieFile,   \* data/cookie/cookie.json, one of CookieFiles
    manifest,     \* data/categories/<c>.csv: CsvFile(rows) or NoFile
    files,        \* data/html/<c>/<pid>.html that exist: pairs <<c, pid>>
    files0,       \* the artifacts that existed when the script started
    pc,           \* position of run()
    exitCode,     \* the script's exit status, -1 while it runs
    cookies,      \* self.cookies has been loaded
    cats,         \* the category list of run()
    urls,         \* urls[c], the rows loaded for category c
    stats,        \* self.stats: done, fail, total
    cur,          \* index into cats of the category being processed
    browser,      \* "none", "open", "closed"
    ctx,          \* ctx[c]: the browsing context of category c
    sem,          \* value of the current category's semaphore
    task,         \* task[k]: the coroutines gather() runs for cats[cur]
    pending,      \* pending[c]: coroutines of category c that have not returned
    cat_success   \* per category, the success count run() logs; -1 before

(***************************************************************************)
(* State of run_pipeline.py and of its other two children                  *)
(***************************************************************************)
VARIABLES
    credentials,  \* the database holds a login and a password
    stale_report, \* data/results holds all_products_*.xlsx of an earlier run
    ppc,          \* position of run_pipeline.main; "none": not run
    step,         \* index into pipeline_steps
    stage_rc,     \* per step: -2 not started, -1 running, else its returncode
    prc,          \* exit status of run_pipeline.py, -1 before it exits
    lpc,          \* position of login_and_save_cookies.main
    lrc,          \* exit status of login_and_save_cookies.py
    driver,       \* the WebDriver: "none", "open", "failed", "quit"
    lcats,        \* the categories discover_categories returned
    category_data,\* per category: the loop of main has processed it, and the
                  \* links extract_product_count_and_links returned
    xpc,          \* position of extract_to_excel.main
    xrc,          \* exit status of extract_to_excel.py
    excel         \* extract_to_excel.py wrote a report

(***************************************************************************)
(* State of a cookie loader run on a cookie file                           *)
(***************************************************************************)
VARIABLES
    cookieJson,   \* the records of the cookie file, as json.load returns them
    session       \* what a loader made of them: by, ok, cookies

cookieVars == <<cookieJson, session>>

(***************************************************************************)
(* State of the inventory extraction applied to one page                   *)
(***************************************************************************)
VARIABLES
    soup,            \* the inventory accordions of the parsed page
    row_num,         \* the row add_product_rows starts at
    ipc,             \* which of the functions have been applied
    inventory_data,  \* what extract_inventory_from_html returned
    ws,              \* the rows add_product_rows wrote, and its return value
    dom_inventory    \* what extract_inventory of scrape_to_excel.py returned

inventoryVars == <<soup, row_num, ipc, inventory_data, ws, dom_inventory>>

(***************************************************************************)
(* State of extract_to_excel.main over the downloaded pages                *)
(***************************************************************************)
VARIABLES
    html_files,         \* the category of each file of html_files, in order
    epc,                \* position of main
    file_idx,           \* how many files the loop has processed
    page,               \* the content of the file the loop read last
    log,                \* what the loop printed for that file
    all_products_data,  \* the records extracted so far
    counts,             \* successful and failed
    wb,                 \* the workbook create_excel_with_all_products saved
    dom_product         \* what extract_all_from_dom makes of the page

batchVars == <<html_files, epc, file_idx, page, log, all_products_data, counts, wb,
               dom_product>>

(***************************************************************************)
(* State of the dashboard (frontend/app.py)                                *)
(***************************************************************************)
VARIABLES
    scraping_active,   \* the global flag
    scraping_process,  \* the global handle: "None" or the run it belongs to
    scraping_stats,    \* scraping_stats, its 'status'
    request,           \* request[r]: the HTTP requests the server handles
    thread,            \* thread[r]: the thread the start request r started
    history            \* history[r]: status of the ScrapingHistory row of
                       \* the run request r started; "none": no row

dashVars == <<scraping_active, scraping_process, scraping_stats, request, thread, history>>

(***************************************************************************)
(* State of redownload_incomplete.py                                       *)
(***************************************************************************)
VARIABLES
    incomplete,   \* the list scan_for_incomplete_files returned
    redownload    \* redownload_incomplete_files: its position, loop index,
                  \* counters, page, context and browser

redownloadVars == <<incomplete, redownload>>

\* The database, and the state of what is not part of a pipeline run.
fixedVars == <<credentials, stale_report, cookieVars, inventoryVars, batchVars, dashVars,
               redownloadVars>>

pipeVars == <<fixedVars, ppc, step, stage_rc, prc, lpc, lrc, driver, lcats, category_data,
              xpc, xrc, excel>>

\* What a step of a fetch script leaves alone outside its own process.
diskVars == <<script, cookieFile, manifest, files0, pipeVars>>
loadVars == <<cookies, cats, urls>>
fetchVars == <<script, cookieFile, manifest, files, files0, pc, exitCode, cookies, cats,
               urls, stats, cur, browser, ctx, sem, task, pending, cat_success>>
vars == <<fetchVars, pipeVars>>

\* No page is given to the inventory extraction on its own.
NoSheet == [rows |-> <<>>, next |-> 0]

InventoryNotRun ==
    /\ soup = <<>>
    /\ row_num = 0
    /\ ipc = "none"
    /\ inventory_data = <<>>
    /\ ws = NoSheet
    /\ dom_inventory = <<>>

\* A page that has not been read, a workbook that has not been saved and a
\* function that has not been applied.
NoPage == [next_data |-> "none", name |-> "", h1 |-> "", grid |-> <<>>]
NoWorkbook == [saved |-> FALSE, summary |-> <<>>, summary_row |-> 0, sheets |-> <<>>]
NotApplied == [applied |-> FALSE, product |-> FALSE, name |-> "", inventory |-> <<>>]

\* extract_to_excel.main is not run on its own.
BatchNotRun ==
    /\ html_files = <<>>
    /\ epc = "none"
    /\ file_idx = 0
    /\ page = NoPage
    /\ log = "none"
    /\ all_products_data = <<>>
    /\ counts = [successful |-> 0, failed |-> 0]
    /\ wb = NoWorkbook
    /\ dom_product = NotApplied

\* Most HTTP requests the dashboard handles in a run of the model.
MaxRequests == 3
Requests == 1..MaxRequests

\* A request that has not arrived.
NoRequest == [kind |-> "none", pc |-> "none", code |-> 0]

\* The dashboard after the import of app.py: the globals of lines 126-136,
\* no request, no thread and no history row.
DashIdle ==
    /\ scraping_active = FALSE
    /\ scraping_process = "None"
    /\ scraping_stats = [status |-> "idle"]
    /\ request = [r \in Requests |-> NoRequest]
    /\ thread = [r \in Requests |-> "none"]
    /\ history = [r \in Requests |-> "none"]

\* redownload_incomplete_files has not been called.
NoRedownload == [pc |-> "none", item |-> 0, success |-> 0, failed |-> 0, page |-> "none",
                 context |-> "none", browser |-> "none"]

RedownloadNotRun == incomplete = <<>> /\ redownload = NoRedownload

\* A coroutine that has not been created.
\*   pc      where the coroutine is suspended
\*   page    the page object: "none", "open", "closed"
\*   permit  whether it has acquired a permit of the semaphore
\*   gotos   how many times it has called page.goto
\*   ready   the readiness wait of scrape_page while the page is in use:
\*           "none", "found", "timeout"
\*   fault   what went wrong: "none", "goto" (the navigation raised),
\*           "raise" (another exception), or "nodata"
\*   ret     the coroutine's return value: "none", "true", "false"
NoTask == [pc |-> "none", page |-> "none", permit |-> FALSE, gotos |-> 0,
           ready |-> "none", fault |-> "none", ret |-> "none"]

(***************************************************************************)
(* The fetch scripts: PageDownloader.run / Scraper.run                     *)
(***************************************************************************)

\* os.path.exists(self.cookies_file)
cookie_file_exists(f) == f # "missing"

\* load_cookies: json.load raises on an empty or non-JSON file; c['name']
\* raises on a record without the key.  [] and {} iterate zero times.
load_cookies_raises(f) == f \in {"empty", "notjson", "badrecord"}

\* The categories that have a manifest on disk.
csv_files == {c \in Cats : manifest[c].present}

\* check_prerequisites: the cookie file and at least one manifest exist.
check_prerequisites == cookie_file_exists(cookieFile) /\ csv_files # {}

\* sorted(categories) over the two names of the model.
sorted_cats(S) == SelectSeq(<<"men", "women">>, LAMBDA c : c \in S)

\* discover_categories (download) or the fixed list of Scraper.run, cut to
\* the categories of the model.
category_list ==
    IF script = "download" THEN sorted_cats(csv_files) ELSE <<"women", "men">>

\* load_urls: the rows of the manifest, [] when it is missing.
load_urls(c) == IF manifest[c].present THEN manifest[c].rows ELSE <<>>

RECURSIVE SumLen(_, _)
SumLen(f, S) ==
    IF S = {} THEN 0
    ELSE LET c == CHOOSE x \in S : TRUE IN Len(f[c]) + SumLen(f, S \ {c})

\* The script ends: return from run() is exit status 0, an exception that
\* leaves run() is exit status 1.
Exit(code) == pc' = "exit" /\ exitCode' = code

\* if not self.check_prerequisites(): return
run_check_prerequisites ==
    /\ pc = "start"
    /\ IF check_prerequisites
       THEN pc' = "load_cookies" /\ UNCHANGED exitCode
       ELSE Exit(0)
    /\ UNCHANGED <<diskVars, files, loadVars, stats, cur, browser, ctx, sem, task,
                   pending, cat_success>>

\* self.load_cookies()
run_load_cookies ==
    /\ pc = "load_cookies"
    /\ IF load_cookies_raises(cookieFile)
       THEN Exit(1) /\ UNCHANGED cookies
       ELSE pc' = "load_urls" /\ cookies' = TRUE /\ UNCHANGED exitCode
    /\ UNCHANGED <<diskVars, files, cats, urls, stats, cur, browser, ctx, sem, task,
                   pending, cat_success>>

\* The category list, urls[c] for each category and stats['total'];
\* return when there is nothing to fetch.
run_load_urls ==
    /\ pc = "load_urls"
    /\ cats' = category_list
    /\ urls' = [c \in Cats |-> load_urls(c)]
    /\ LET total == SumLen(urls', {cats'[j] : j \in 1..Len(cats')})
       IN /\ stats' = [stats EXCEPT !.total = total]
          /\ IF total = 0
             THEN Exit(0)
             ELSE pc' = "launch" /\ UNCHANGED exitCode
    /\ UNCHANGED <<diskVars, files, cookies, cur, browser, ctx, sem, task,
                   pending, cat_success>>

\* An exception raised inside "async with async_playwright()": the block
\* is left, Playwright stops and takes the browser and contexts with it;
\* the exception leaves run().
run_raise ==
    /\ Exit(1)
    /\ browser' = IF browser = "open" THEN "closed" ELSE browser
    /\ ctx' = [c \in Cats |-> IF ctx[c] = "open" THEN "closed" ELSE ctx[c]]
    /\ UNCHANGED <<diskVars, files, loadVars, stats, cur, sem, task, pending, cat_success>>

\* browser = await p.chromium.launch(...)
run_launch_ok ==
    /\ pc = "launch"
    /\ browser' = "open"
    /\ pc' = "cat_loop"
    /\ cur' = 1
    /\ UNCHANGED <<diskVars, files, exitCode, loadVars, stats, ctx, sem, task,
                   pending, cat_success>>

run_launch_fail ==
    /\ pc = "launch"
    /\ run_raise

\* for cat in cats: if not urls[cat]: continue
run_skip_empty_category ==
    /\ pc = "cat_loop"
    /\ cur <= Len(cats)
    /\ urls[cats[cur]] = <<>>
    /\ cur' = cur + 1
    /\ UNCHANGED <<diskVars, files, pc, exitCode, loadVars, stats, browser, ctx, sem,
                   task, pending, cat_success>>

\* The coroutines gather() is handed, one per row of category c.
created_tasks(c) ==
    [t \in TaskIds |-> IF t <= Len(urls[c]) THEN [NoTask EXCEPT !.pc = "created"] ELSE NoTask]

\* ctx = await browser.new_context(); await ctx.add_cookies();
\* sem = asyncio.Semaphore(MAX_CONCURRENT); the coroutines are created and
\* run() waits in gather().
run_new_context_ok ==
    /\ pc = "cat_loop"
    /\ cur <= Len(cats)
    /\ urls[cats[cur]] # <<>>
    /\ ctx' = [ctx EXCEPT ![cats[cur]] = "open"]
    /\ sem' = MAX_CONCURRENT
    /\ task' = created_tasks(cats[cur])
    /\ pending' = [pending EXCEPT ![cats[cur]] = Len(urls[cats[cur]])]
    /\ pc' = "gather"
    /\ UNCHANGED <<diskVars, files, exitCode, loadVars, stats, cur, browser, cat_success>>

run_new_context_fail ==
    /\ pc = "cat_loop"
    /\ cur <= Len(cats)
    /\ urls[cats[cur]] # <<>>
    /\ run_raise

\* The coroutines of the current gather().
Tasks == {t \in TaskIds : task[t].pc # "none"}

\* A mutation of gather_returns: gather() that returns with the first
\* coroutine that returns.
gather_returns_first == \E t \in Tasks : task[t].pc = "done"

\* gather() returns when every coroutine has returned.
gather_returns == \A t \in Tasks : task[t].pc = "done"

\* results = await asyncio.gather(...); success = sum(r is True)
run_gather_done ==
    /\ pc = "gather"
    /\ gather_returns
    /\ cat_success' = [cat_success EXCEPT ![cats[cur]] =
                          Cardinality({t \in Tasks : task[t].ret = "true"})]
    /\ pc' = "ctx_close"
    /\ UNCHANGED <<diskVars, files, exitCode, loadVars, stats, cur, browser, ctx, sem,
                   task, pending>>

\* await ctx.close()
run_ctx_close_ok ==
    /\ pc = "ctx_close"
    /\ ctx' = [ctx EXCEPT ![cats[cur]] = "closed"]
    /\ cur' = cur + 1
    /\ pc' = "cat_loop"
    /\ UNCHANGED <<diskVars, files, exitCode, loadVars, stats, browser, sem, task,
                   pending, cat_success>>

run_ctx_close_fail ==
    /\ pc = "ctx_close"
    /\ run_raise

\* await browser.close()
run_browser_close_ok ==
    /\ pc = "cat_loop"
    /\ cur > Len(cats)
    /\ browser' = "closed"
    /\ pc' = "summary"
    /\ UNCHANGED <<diskVars, files, exitCode, loadVars, stats, cur, ctx, sem, task,
                   pending, cat_success>>

run_browser_close_fail ==
    /\ pc = "cat_loop"
    /\ cur > Len(cats)
    /\ run_raise

\* The final summary (download) or the workbook and summary (scrape).
run_summary ==
    /\ pc = "summary"
    /\ Exit(0)
    /\ UNCHANGED <<diskVars, files, loadVars, stats, cur, browser, ctx, sem, task,
                   pending, cat_success>>

(***************************************************************************)
(* The coroutines: PageDownloader.download_page / Scraper.scrape_page      *)
(***************************************************************************)

\* The URL of work item t of the current category.
url_of(t) == urls[cats[cur]][t]

\* output_file = <output>/<cat>/<pid>.html
output_file(t) == <<cats[cur], pid(url_of(t))>>

\* A mutation of already_exists: no skip.
never_exists(t) == FALSE

\* if os.path.exists(output_file); scrape_page has no such test.
already_exists(t) == script = "download" /\ output_file(t) \in files

\* A mutation of sem_free: a semaphore that never blocks.
sem_free_always == TRUE

\* "async with sem" enters when the semaphore's value is positive.
sem_free == sem > 0

\* A mutation of count_skipped: a skip path that forgets stats['done'].
count_skipped_forgotten(st) == st

\* self.stats['done'] += 1 on the skip path.
count_skipped(st) == [st EXCEPT !.done = @ + 1]

\* The event loop runs the first step of every coroutine, in order, before
\* it delivers any completion of an awaited call.
all_started == \A t \in Tasks : task[t].pc # "created"

\* run() is suspended in gather() and coroutine t exists.
running(t) == pc = "gather" /\ task[t].pc # "none"

\* What the except clause has caught: a failed navigation or another error.
raised_in(r) == IF r.pc = "goto" THEN "goto" ELSE "raise"

\* A mutation of except_record: a handler that navigates once more.
except_record_retry(r) ==
    IF r.pc = "goto" /\ r.gotos = 1
    THEN [r EXCEPT !.gotos = 2]
    ELSE IF r.page = "none"
    THEN [r EXCEPT !.pc = "done", !.ret = "false", !.fault = raised_in(r)]
    ELSE [r EXCEPT !.pc = "close_err", !.fault = raised_in(r)]

\* The except clause up to its next suspension: with no page it returns
\* False at once, with a page it awaits page.close().
except_record(r) ==
    IF r.page = "none"
    THEN [r EXCEPT !.pc = "done", !.ret = "false", !.fault = raised_in(r)]
    ELSE [r EXCEPT !.pc = "close_err", !.fault = raised_in(r)]

\* The coroutines of the current category that have not returned, after
\* the step that gives task'.
pending_after ==
    pending' = [pending EXCEPT ![cats[cur]] =
                   Cardinality({t \in TaskIds : task'[t].pc \notin {"none", "done"}})]

\* What a step of a coroutine leaves alone.
page_frame == UNCHANGED <<diskVars, pc, exitCode, loadVars, cur, browser, ctx, cat_success>>

\* except Exception: self.stats['fail'] += 1; close the page if there is one;
\* return False.  Leaving "async with sem" releases the permit.
except_clause(t) ==
    /\ stats' = [stats EXCEPT !.fail = @ + 1]
    /\ task' = [task EXCEPT ![t] = except_record(task[t])]
    /\ sem' = IF task'[t].pc = "done" THEN sem + 1 ELSE sem

\* First step of the coroutine: the skip test, then "async with sem".
page_begin(t) ==
    /\ running(t)
    /\ task[t].pc = "created"
    /\ \A k \in 1..(t - 1) : task[k].pc # "created"
    /\ IF already_exists(t)
       THEN /\ stats' = count_skipped(stats)
            /\ task' = [task EXCEPT ![t] = [@ EXCEPT !.pc = "done", !.ret = "true"]]
            /\ UNCHANGED sem
       ELSE IF sem_free
       THEN /\ sem' = sem - 1
            /\ task' = [task EXCEPT ![t] = [@ EXCEPT !.pc = "new_page", !.permit = TRUE]]
            /\ UNCHANGED stats
       ELSE /\ task' = [task EXCEPT ![t] = [@ EXCEPT !.pc = "wait_sem"]]
            /\ UNCHANGED <<sem, stats>>
    /\ pending_after
    /\ UNCHANGED files
    /\ page_frame

\* A waiter of the semaphore is woken, first come first served.
page_acquire(t) ==
    /\ running(t)
    /\ all_started
    /\ task[t].pc = "wait_sem"
    /\ \A k \in 1..(t - 1) : task[k].pc # "wait_sem"
    /\ sem_free
    /\ sem' = sem - 1
    /\ task' = [task EXCEPT ![t] = [@ EXCEPT !.pc = "new_page", !.permit = TRUE]]
    /\ UNCHANGED <<files, stats, pending>>
    /\ page_frame

\* page = await context.new_page(); download_page then calls page.goto,
\* scrape_page first installs its route.
page_new_page_ok(t) ==
    /\ running(t)
    /\ all_started
    /\ task[t].pc = "new_page"
    /\ task' = [task EXCEPT ![t] =
                   IF script = "download"
                   THEN [@ EXCEPT !.page = "open", !.pc = "goto", !.gotos = @ + 1]
                   ELSE [@ EXCEPT !.page = "open", !.pc = "route"]]
    /\ UNCHANGED <<files, stats, sem, pending>>
    /\ page_frame

\* await page.route(...) of scrape_page, then page.goto is called.
page_route_ok(t) ==
    /\ running(t)
    /\ task[t].pc = "route"
    /\ task' = [task EXCEPT ![t] = [@ EXCEPT !.pc = "goto", !.gotos = @ + 1]]
    /\ UNCHANGED <<files, stats, sem, pending>>
    /\ page_frame

\* await page.goto(url, timeout=PAGE_TIMEOUT) returns, with a response of
\* any HTTP status.  download_page sleeps and calls page.content();
\* scrape_page waits for the 'table' selector.
page_goto_ok(t) ==
    /\ running(t)
    /\ task[t].pc = "goto"
    /\ task' = [task EXCEPT ![t] =
                   [@ EXCEPT !.pc = IF script = "download" THEN "content" ELSE "wait_selector"]]
    /\ UNCHANGED <<files, stats, sem, pending>>
    /\ page_frame

\* A mutation of page_wait_selector: a wait without its own try, whose
\* timeout is handled by the except clause of the coroutine.
page_wait_selector_strict(t) ==
    /\ running(t)
    /\ task[t].pc = "wait_selector"
    /\ \/ /\ task' = [task EXCEPT ![t] = [@ EXCEPT !.pc = "content", !.ready = "found"]]
          /\ UNCHANGED <<stats, sem>>
       \/ except_clause(t)
    /\ UNCHANGED <<files, pending>>
    /\ page_frame

\* try: await page.wait_for_selector('table', timeout=10000) except: pass;
\* then the settle delay and page.content().
page_wait_selector(t) ==
    /\ running(t)
    /\ task[t].pc = "wait_selector"
    /\ \E r \in {"found", "timeout"} :
          task' = [task EXCEPT ![t] = [@ EXCEPT !.pc = "content", !.ready = r]]
    /\ UNCHANGED <<files, stats, sem, pending>>
    /\ page_frame

\* html = await page.content() returns; page.close() is called.
page_content_ok(t) ==
    /\ running(t)
    /\ task[t].pc = "content"
    /\ task' = [task EXCEPT ![t] = [@ EXCEPT !.pc = "close"]]
    /\ UNCHANGED <<files, stats, sem, pending>>
    /\ page_frame

\* A mutation of page_raise: no except clause, the exception leaves the
\* coroutine and gather() hands it to run().
page_raise_unhandled(t) ==
    /\ running(t)
    /\ all_started
    /\ task[t].pc \in {"new_page", "route", "goto", "content"}
    /\ run_raise

\* An awaited call of the try block raises (new_page, route, goto, content).
page_raise(t) ==
    /\ running(t)
    /\ all_started
    /\ task[t].pc \in {"new_page", "route", "goto", "content"}
    /\ except_clause(t)
    /\ pending_after
    /\ UNCHANGED files
    /\ page_frame

\* await page.close() raises on the success path (the target is gone), or
\* it returns and the code after it raises (open() or write() in
\* download_page, extract_all_from_dom in scrape_page): the except clause
\* runs and awaits page.close() on the closed page.
page_close_raise(t) ==
    /\ running(t)
    /\ task[t].pc = "close"
    /\ stats' = [stats EXCEPT !.fail = @ + 1]
    /\ task' = [task EXCEPT ![t] = [@ EXCEPT !.page = "closed", !.pc = "close_err",
                                               !.fault = "raise"]]
    /\ UNCHANGED <<files, sem, pending>>
    /\ page_frame

\* await page.close() returns in download_page: the file is written,
\* stats['done'] += 1, return True; the permit is released.
download_page_save(t) ==
    /\ running(t)
    /\ script = "download"
    /\ task[t].pc = "close"
    /\ files' = files \cup {output_file(t)}
    /\ stats' = [stats EXCEPT !.done = @ + 1]
    /\ task' = [task EXCEPT ![t] = [@ EXCEPT !.page = "closed", !.pc = "done", !.ret = "true"]]
    /\ sem' = sem + 1
    /\ pending_after
    /\ page_frame

\* await page.close() returns in scrape_page: extract_all_from_dom gives a
\* product (stats['done'] += 1, return True) or none (stats['fail'] += 1,
\* return False); the permit is released.
scrape_page_extract(t) ==
    /\ running(t)
    /\ script = "scrape"
    /\ task[t].pc = "close"
    /\ \E product \in BOOLEAN :
          /\ stats' = IF product THEN [stats EXCEPT !.done = @ + 1]
                      ELSE [stats EXCEPT !.fail = @ + 1]
          /\ task' = [task EXCEPT ![t] =
                         IF product
                         THEN [@ EXCEPT !.page = "closed", !.pc = "done", !.ret = "true",
                                        !.ready = "none"]
                         ELSE [@ EXCEPT !.page = "closed", !.pc = "done", !.ret = "false",
                                        !.fault = "nodata", !.ready = "none"]]
    /\ sem' = sem + 1
    /\ pending_after
    /\ UNCHANGED files
    /\ page_frame

\* A mutation of page_except_return: the except clause returns without
\* closing the page.
page_except_return_leak(t) ==
    /\ running(t)
    /\ task[t].pc = "close_err"
    /\ task' = [task EXCEPT ![t] = [@ EXCEPT !.pc = "done", !.ret = "false", !.ready = "none"]]
    /\ sem' = sem + 1
    /\ pending_after
    /\ UNCHANGED <<files, stats>>
    /\ page_frame

\* The except clause's "await page.close()" ends (an error is swallowed);
\* return False; the permit is released.
page_except_return(t) ==
    /\ running(t)
    /\ task[t].pc = "close_err"
    /\ task' = [task EXCEPT ![t] = [@ EXCEPT !.page = "closed", !.pc = "done", !.ret = "false",
                                               !.ready = "none"]]
    /\ sem' = sem + 1
    /\ pending_after
    /\ UNCHANGED <<files, stats>>
    /\ page_frame

(***************************************************************************)
(* Specification of one run of a fetch script                              *)
(***************************************************************************)

\* The artifacts a run over manifests m may find: one per category and
\* identifier of its rows.
targets(m) == UNION {{<<c, pid(m[c].rows[j])>> : j \in 1..Len(m[c].rows)} : c \in Cats}

\* No category has been processed by the loop of login_and_save_cookies.main.
NoCategoryData == [c \in Cats |-> [done |-> FALSE, links |-> <<>>]]

\* run_pipeline.py is not part of a run of a fetch script on its own.
PipelineNotRun ==
    /\ credentials = TRUE
    /\ stale_report = FALSE
    /\ ppc = "none"
    /\ step = 0
    /\ stage_rc = [k \in Steps |-> -2]
    /\ prc = -1
    /\ lpc = "none"
    /\ lrc = -1
    /\ driver = "none"
    /\ lcats = {}
    /\ category_data = NoCategoryData
    /\ xpc = "none"
    /\ xrc = -1
    /\ excel = FALSE

\* No cookie loader is run on its own.
NoSession == [by |-> "none", ok |-> TRUE, cookies |-> <<>>]

CookiesNotLoaded == cookieJson = <<>> /\ session = NoSession

\* The disk before the script starts.  With a valid cookie file: any
\* manifests, and for download_by_category.py any of the artifacts an
\* earlier run left, MaxUrls + 1 rows at most in all.  With any other
\* cookie file: one row or no manifest.
Init ==
    /\ script \in {"download", "scrape"}
    /\ cookieFile \in CookieFiles
    /\ manifest \in IF cookieFile = "valid"
                    THEN [Cats -> {CsvFile(m) : m \in Manifests} \cup {NoFile}]
                    ELSE [Cats -> {CsvFile(SubSeq(UrlList, 1, 1)), NoFile}]
    /\ Len(manifest["men"].rows) + Len(manifest["women"].rows) <= MaxUrls + 1
    /\ files \in IF script = "download" /\ cookieFile = "valid"
                 THEN SUBSET targets(manifest)
                 ELSE {{}}
    /\ files0 = files
    /\ pc = "start"
    /\ exitCode = -1
    /\ cookies = FALSE
    /\ cats = <<>>
    /\ urls = [c \in Cats |-> <<>>]
    /\ stats = [done |-> 0, fail |-> 0, total |-> 0]
    /\ cur = 0
    /\ browser = "none"
    /\ ctx = [c \in Cats |-> "none"]
    /\ sem = 0
    /\ task = [t \in TaskIds |-> NoTask]
    /\ pending = [c \in Cats |-> 0]
    /\ cat_success = [c \in Cats |-> -1]
    /\ PipelineNotRun
    /\ CookiesNotLoaded
    /\ InventoryNotRun
    /\ BatchNotRun
    /\ DashIdle
    /\ RedownloadNotRun

Next ==
    \/ run_check_prerequisites
    \/ run_load_cookies
    \/ run_load_urls
    \/ run_launch_ok
    \/ run_launch_fail
    \/ run_skip_empty_category
    \/ run_new_context_ok
    \/ run_new_context_fail
    \/ run_gather_done
    \/ run_ctx_close_ok
    \/ run_ctx_close_fail
    \/ run_browser_close_ok
    \/ run_browser_close_fail
    \/ run_summary
    \/ \E t \in TaskIds :
          \/ page_begin(t)
          \/ page_acquire(t)
          \/ page_new_page_ok(t)
          \/ page_route_ok(t)
          \/ page_goto_ok(t)
          \/ page_wait_selector(t)
          \/ page_content_ok(t)
          \/ page_raise(t)
          \/ page_close_raise(t)
          \/ download_page_save(t)
          \/ scrape_page_extract(t)
          \/ page_except_return(t)

Spec == Init /\ [][Next]_vars

(***************************************************************************)
(* run_pipeline.py and its children                                        *)
(***************************************************************************)

\* What a step of the pipeline or of a child other than the fetch script
\* leaves alone of the fetch script's process.
fetchProc == <<script, pc, exitCode, cookies, cats, urls, stats, cur, browser, ctx,
               sem, task, pending, cat_success>>
loginVars == <<lpc, lrc, driver, lcats, category_data>>
extractVars == <<xpc, xrc, excel>>
mainVars == <<fixedVars, ppc, step, stage_rc, prc>>

\* product_pattern of extract_product_count_and_links: ^/p/[^/]+/[^/?#]+$
product_pattern(u) == Len(u) = 3 /\ u[1] = "p" /\ u[2] # "" /\ u[3] # ""

\* The sorted link lists save_category_links_to_csv can write: links that
\* match product_pattern.
LoginLinks ==
    LET matching == SelectSeq(UrlList, product_pattern)
    IN {SubSeq(matching, 1, n) : n \in 0..Min(MaxUrls, Len(matching))}

\* if not check_credentials(): sys.exit(1)
main_check_credentials ==
    /\ ppc = "credentials"
    /\ IF credentials
       THEN ppc' = "steps" /\ step' = 1 /\ UNCHANGED prc
       ELSE ppc' = "failed" /\ prc' = 1 /\ UNCHANGED step
    /\ UNCHANGED <<fixedVars, stage_rc, loginVars, extractVars, fetchProc,
                   cookieFile, manifest, files, files0>>

\* run_script: subprocess.Popen of login_and_save_cookies.py
run_script_login ==
    /\ ppc = "steps"
    /\ step = 1
    /\ ppc' = "child"
    /\ stage_rc' = [stage_rc EXCEPT ![1] = -1]
    /\ lpc' = "setup_driver"
    /\ UNCHANGED <<fixedVars, step, prc, lrc, driver, lcats, category_data, extractVars,
                   fetchProc, cookieFile, manifest, files, files0>>

\* run_script: subprocess.Popen of download_by_category.py
run_script_download ==
    /\ ppc = "steps"
    /\ step = 2
    /\ ppc' = "child"
    /\ stage_rc' = [stage_rc EXCEPT ![2] = -1]
    /\ pc' = "start"
    /\ files0' = files
    /\ UNCHANGED <<fixedVars, step, prc, loginVars, extractVars, script, exitCode,
                   cookies, cats, urls, stats, cur, browser, ctx, sem, task, pending,
                   cat_success, cookieFile, manifest, files>>

\* run_script: subprocess.Popen of extract_to_excel.py
run_script_extract ==
    /\ ppc = "steps"
    /\ step = 3
    /\ ppc' = "child"
    /\ stage_rc' = [stage_rc EXCEPT ![3] = -1]
    /\ xpc' = "main"
    /\ UNCHANGED <<fixedVars, step, prc, loginVars, xrc, excel, fetchProc,
                   cookieFile, manifest, files, files0>>

\* The child of the current step has exited, and its exit status.
child_exited ==
    \/ step = 1 /\ lpc = "exit"
    \/ step = 2 /\ pc = "exit"
    \/ step = 3 /\ xpc = "exit"

returncode == IF step = 1 THEN lrc ELSE IF step = 2 THEN exitCode ELSE xrc

\* A mutation of step_succeeded: a pipeline that goes on whatever the child
\* returned.
step_succeeded_always(rc) == TRUE

\* run_script returns process.returncode == 0
step_succeeded(rc) == rc = 0

\* process.wait() returns; main goes to the next step, to the cleanup after
\* the last step, or to sys.exit(1).
run_script_returns ==
    /\ ppc = "child"
    /\ child_exited
    /\ stage_rc' = [stage_rc EXCEPT ![step] = returncode]
    /\ IF step_succeeded(returncode)
       THEN /\ IF step < 3
               THEN ppc' = "steps" /\ step' = step + 1
               ELSE ppc' = "cleanup" /\ UNCHANGED step
            /\ UNCHANGED prc
       ELSE ppc' = "failed" /\ prc' = 1 /\ UNCHANGED step
    /\ UNCHANGED <<fixedVars, loginVars, extractVars, fetchProc,
                   cookieFile, manifest, files, files0>>

\* cleanup_temporary_files() removes data/cookie, data/categories and
\* data/html; main then logs "PIPELINE COMPLETED SUCCESSFULLY" and returns.
cleanup_temporary_files ==
    /\ ppc = "cleanup"
    /\ cookieFile' = "missing"
    /\ manifest' = [c \in Cats |-> NoFile]
    /\ files' = {}
    /\ ppc' = "completed"
    /\ prc' = 0
    /\ UNCHANGED <<fixedVars, step, stage_rc, loginVars, extractVars, fetchProc, files0>>

\* excel_files = list(results_dir.glob("all_products_*.xlsx")): the report
\* of an earlier run, which the cleanup does not remove, and the report
\* extract_to_excel.py wrote in this run.
excel_files ==
    (IF stale_report THEN {"earlier"} ELSE {}) \cup (IF excel THEN {"this"} ELSE {})

\* if excel_files: logging.info("Excel report generated: <latest_excel>"),
\* at the end of a completed run.
report_logged == ppc = "completed" /\ excel_files # {}

\* What a step of login_and_save_cookies.py leaves alone.
login_frame == UNCHANGED <<mainVars, extractVars, fetchProc, files, files0>>

\* What a step of extract_to_excel.py leaves alone.
extract_frame == UNCHANGED <<mainVars, loginVars, fetchProc, cookieFile, manifest,
                             files, files0>>

\* driver = setup_driver() returns a driver.
login_setup_driver_ok ==
    /\ lpc = "setup_driver"
    /\ driver' = "open"
    /\ lpc' = "login"
    /\ UNCHANGED <<lrc, lcats, category_data, cookieFile, manifest>>
    /\ login_frame

\* main's "except Exception" prints the error and the traceback, and main
\* returns: the script's exit status.
swallowed_status == 0

\* An exception reaches main's "except Exception": setup_driver re-raises,
\* driver.get in login_to_wholesale, driver.get(initial_url) of
\* extract_product_count_and_links (it precedes the try block), save_cookies
\* or update_links_file raises.  finally: driver.quit() if there is a driver.
login_raise ==
    /\ lpc \in {"setup_driver", "login", "extract_links", "save_cookies", "update_links"}
    /\ driver' = IF lpc = "setup_driver" THEN "failed" ELSE "quit"
    /\ lpc' = "exit"
    /\ lrc' = swallowed_status
    /\ UNCHANGED <<lcats, category_data, cookieFile, manifest>>
    /\ login_frame

\* login_success = login_to_wholesale(driver) is True.
login_to_wholesale_ok ==
    /\ lpc = "login"
    /\ lpc' = "discover"
    /\ UNCHANGED <<lrc, driver, lcats, category_data, cookieFile, manifest>>
    /\ login_frame

\* if not login_success: sys.exit(1)
login_to_wholesale_fail ==
    /\ lpc = "login"
    /\ driver' = "quit"
    /\ lpc' = "exit"
    /\ lrc' = 1
    /\ UNCHANGED <<lcats, category_data, cookieFile, manifest>>
    /\ login_frame

\* categories = discover_categories(driver): the navigation links found,
\* or the fallback defaults when none is found.
login_discover_categories ==
    /\ lpc = "discover"
    /\ \E D \in SUBSET Cats :
          lcats' = IF D = {} THEN Cats ELSE D
    /\ lpc' = "extract_links"
    /\ UNCHANGED <<lrc, driver, category_data, cookieFile, manifest>>
    /\ login_frame

\* discover_categories caught an exception and returned {}:
\* if not categories: sys.exit(1)
login_no_categories ==
    /\ lpc = "discover"
    /\ driver' = "quit"
    /\ lpc' = "exit"
    /\ lrc' = 1
    /\ UNCHANGED <<lcats, category_data, cookieFile, manifest>>
    /\ login_frame

\* One turn of 'for category_name, cat_info in categories.items()':
\* extract_product_count_and_links returns the links it found, none when
\* its try block caught an error, and save_category_links_to_csv writes the
\* manifest when there are links.  After the last category main goes on to
\* save_cookies.
login_extract_links(c) ==
    /\ lpc = "extract_links"
    /\ c \in lcats
    /\ ~category_data[c].done
    /\ \E links \in LoginLinks :
          /\ category_data' = [category_data EXCEPT ![c] = [done |-> TRUE, links |-> links]]
          /\ manifest' = IF links # <<>> THEN [manifest EXCEPT ![c] = CsvFile(links)]
                                         ELSE manifest
    /\ lpc' = IF \A d \in lcats \ {c} : category_data[d].done THEN "save_cookies"
                                                              ELSE "extract_links"
    /\ UNCHANGED <<lrc, driver, lcats, cookieFile>>
    /\ login_frame

\* save_cookies(driver, COOKIE_FILE)
login_save_cookies ==
    /\ lpc = "save_cookies"
    /\ cookieFile' = "valid"
    /\ lpc' = "update_links"
    /\ UNCHANGED <<lrc, driver, lcats, category_data, manifest>>
    /\ login_frame

\* update_links_file(category_data); finally: driver.quit(); exit status 0.
login_finish ==
    /\ lpc = "update_links"
    /\ driver' = "quit"
    /\ lpc' = "exit"
    /\ lrc' = 0
    /\ UNCHANGED <<lcats, category_data, cookieFile, manifest>>
    /\ login_frame

\* extract_to_excel.main finds no HTML file and returns.
extract_main_no_html ==
    /\ xpc = "main"
    /\ files = {}
    /\ xpc' = "exit"
    /\ xrc' = 0
    /\ UNCHANGED excel
    /\ extract_frame

\* No product was extracted from the HTML files: main returns.
extract_main_no_products ==
    /\ xpc = "main"
    /\ files # {}
    /\ xpc' = "exit"
    /\ xrc' = 0
    /\ UNCHANGED excel
    /\ extract_frame

\* create_excel_with_all_products writes data/results/all_products_*.xlsx.
extract_main_report ==
    /\ xpc = "main"
    /\ files # {}
    /\ excel' = TRUE
    /\ xpc' = "exit"
    /\ xrc' = 0
    /\ extract_frame

\* An exception leaves main (os.makedirs or wb.save raises).
extract_main_raise ==
    /\ xpc = "main"
    /\ files # {}
    /\ xpc' = "exit"
    /\ xrc' = 1
    /\ UNCHANGED excel
    /\ extract_frame

\* The disk and the database before run_pipeline.py starts: a clean data
\* directory, or what a failed run left behind.
InitPipeline ==
    /\ script = "download"
    /\ cookieFile \in CookieFiles
    /\ manifest \in {[c \in Cats |-> NoFile],
                     [c \in Cats |-> IF c = "men" THEN CsvFile(SubSeq(UrlList, 1, 1))
                                                  ELSE CsvFile(<<>>)]}
    /\ files \in {{}, targets(manifest)}
    /\ files0 = {}
    /\ pc = "none"
    /\ exitCode = -1
    /\ cookies = FALSE
    /\ cats = <<>>
    /\ urls = [c \in Cats |-> <<>>]
    /\ stats = [done |-> 0, fail |-> 0, total |-> 0]
    /\ cur = 0
    /\ browser = "none"
    /\ ctx = [c \in Cats |-> "none"]
    /\ sem = 0
    /\ task = [t \in TaskIds |-> NoTask]
    /\ pending = [c \in Cats |-> 0]
    /\ cat_success = [c \in Cats |-> -1]
    /\ credentials \in BOOLEAN
    /\ stale_report \in BOOLEAN
    /\ ppc = "credentials"
    /\ step = 0
    /\ stage_rc = [k \in Steps |-> -2]
    /\ prc = -1
    /\ lpc = "none"
    /\ lrc = -1
    /\ driver = "none"
    /\ lcats = {}
    /\ category_data = NoCategoryData
    /\ xpc = "none"
    /\ xrc = -1
    /\ excel = FALSE
    /\ CookiesNotLoaded
    /\ InventoryNotRun
    /\ BatchNotRun
    /\ DashIdle
    /\ RedownloadNotRun

NextPipeline ==
    \/ main_check_credentials
    \/ run_script_login
    \/ run_script_download
    \/ run_script_extract
    \/ run_script_returns
    \/ cleanup_temporary_files
    \/ login_setup_driver_ok
    \/ login_raise
    \/ login_to_wholesale_ok
    \/ login_to_wholesale_fail
    \/ login_discover_categories
    \/ login_no_categories
    \/ \E c \in Cats : login_extract_links(c)
    \/ login_save_cookies
    \/ login_finish
    \/ extract_main_no_html
    \/ extract_main_no_products
    \/ extract_main_report
    \/ extract_main_raise
    \/ run_check_prerequisites
    \/ run_load_cookies
    \/ run_load_urls
    \/ run_launch_ok
    \/ run_launch_fail
    \/ run_skip_empty_category
    \/ run_new_context_ok
    \/ run_new_context_fail
    \/ run_gather_done
    \/ run_ctx_close_ok
    \/ run_ctx_close_fail
    \/ run_browser_close_ok
    \/ run_browser_close_fail
    \/ run_summary
    \/ \E t \in TaskIds :
          \/ page_begin(t)
          \/ page_acquire(t)
          \/ page_new_page_ok(t)
          \/ page_goto_ok(t)
          \/ page_content_ok(t)
          \/ page_raise(t)
          \/ page_close_raise(t)
          \/ download_page_save(t)
          \/ page_except_return(t)

SpecPipeline == InitPipeline /\ [][NextPipeline]_vars

(***************************************************************************)
(* The cookie file: save_cookies and the loaders                           *)
(***************************************************************************)

\* Most cookies in one jar or file.
MaxCookies == 2

\* ['Strict', 'Lax', 'None']
SameSitePolicies == {"Strict", "Lax", "None"}

\* The sameSite values a cookie file may hold: the three policies, and text
\* that browsers and their export tools write; "null" is JSON null.
SameSiteInputs == SameSitePolicies \cup {"lax", "unspecified", "no_restriction", "null"}

\* The records of a cookie file: a dict with the optional keys present or
\* absent, and one without 'name'.
FileRecords ==
    LET bases == {[name |-> "sid", value |-> "v"],
                  [name |-> "sid", value |-> "v", domain |-> "shop", path |-> "/p"]}
    IN bases \cup {b @@ [sameSite |-> x] : b \in bases, x \in SameSiteInputs}
             \cup {[value |-> "v"]}

\* The cookies driver.get_cookies() returns.
DriverCookies ==
    LET base == [name |-> "sid", value |-> "v", domain |-> "shop", path |-> "/p"]
    IN {base} \cup {base @@ [sameSite |-> x] : x \in SameSitePolicies}

SeqsUpTo(S, n) == UNION {[1..k -> S] : k \in 0..n}

\* dict.get(key, default)
get(c, key, default) == IF key \in DOMAIN c THEN c[key] ELSE default

\* formatted_cookie of save_cookies, without the keys no loader reads but
\* storeId.
formatted_cookie(c) ==
    [domain |-> get(c, "domain", ""),
     name |-> get(c, "name", ""),
     path |-> get(c, "path", "/"),
     sameSite |-> get(c, "sameSite", "unspecified"),
     storeId |-> "0",
     value |-> get(c, "value", "")]

\* A mutation of transport_cookie: the sameSite of the file is copied
\* whatever it is.
transport_cookie_unfiltered(c) ==
    LET cookie == [name |-> c.name, value |-> c.value,
                   domain |-> get(c, "domain", ".lululemon.com"),
                   path |-> get(c, "path", "/")]
    IN IF "sameSite" \in DOMAIN c THEN cookie @@ [sameSite |-> c.sameSite] ELSE cookie

\* The cookie PageDownloader.load_cookies, Scraper.load_cookies and
\* redownload_incomplete_files build from a record of the file.
transport_cookie(c) ==
    LET cookie == [name |-> c.name, value |-> c.value,
                   domain |-> get(c, "domain", ".lululemon.com"),
                   path |-> get(c, "path", "/")]
    IN IF get(c, "sameSite", "null") \in SameSitePolicies
       THEN cookie @@ [sameSite |-> c.sameSite]
       ELSE cookie

\* c['name'] and c['value'] raise KeyError on a record without the key.
has_name_value(f) == \A i \in 1..Len(f) : {"name", "value"} \subseteq DOMAIN f[i]

\* The loop of the three loaders over json.load(f).
load_transport(by, f) ==
    IF has_name_value(f)
    THEN [by |-> by, ok |-> TRUE, cookies |-> [i \in 1..Len(f) |-> transport_cookie(f[i])]]
    ELSE [by |-> by, ok |-> FALSE, cookies |-> <<>>]

\* extract_product_links.load_cookies keeps the record and replaces an
\* invalid sameSite by 'Lax'.
default_same_site(c) ==
    IF "sameSite" \in DOMAIN c /\ c.sameSite \notin SameSitePolicies
    THEN [c EXCEPT !.sameSite = "Lax"]
    ELSE c

cookie_frame == UNCHANGED <<fetchVars, credentials, stale_report, inventoryVars, batchVars,
                            dashVars, redownloadVars,
                            ppc, step, stage_rc, prc, loginVars, extractVars>>

\* save_cookies(driver, cookie_file): json.dump(formatted_cookies, f)
save_cookies ==
    /\ \E jar \in SeqsUpTo(DriverCookies, MaxCookies) :
          cookieJson' = [i \in 1..Len(jar) |-> formatted_cookie(jar[i])]
    /\ session' = NoSession
    /\ cookie_frame

\* PageDownloader.load_cookies of download_by_category.py
PageDownloader_load_cookies ==
    /\ session' = load_transport("download_by_category", cookieJson)
    /\ UNCHANGED cookieJson
    /\ cookie_frame

\* Scraper.load_cookies of scrape_to_excel.py
Scraper_load_cookies ==
    /\ session' = load_transport("scrape_to_excel", cookieJson)
    /\ UNCHANGED cookieJson
    /\ cookie_frame

\* The cookie loop of redownload_incomplete_files
redownload_load_cookies ==
    /\ session' = load_transport("redownload_incomplete", cookieJson)
    /\ UNCHANGED cookieJson
    /\ cookie_frame

\* load_cookies of extract_product_links.py
extract_product_links_load_cookies ==
    /\ session' = [by |-> "extract_product_links", ok |-> TRUE,
                   cookies |-> [i \in 1..Len(cookieJson) |-> default_same_site(cookieJson[i])]]
    /\ UNCHANGED cookieJson
    /\ cookie_frame

\* No fetch script runs.
FetchNotRun ==
    /\ script = "download"
    /\ cookieFile = "valid"
    /\ manifest = [c \in Cats |-> NoFile]
    /\ files = {}
    /\ files0 = {}
    /\ pc = "none"
    /\ exitCode = -1
    /\ cookies = FALSE
    /\ cats = <<>>
    /\ urls = [c \in Cats |-> <<>>]
    /\ stats = [done |-> 0, fail |-> 0, total |-> 0]
    /\ cur = 0
    /\ browser = "none"
    /\ ctx = [c \in Cats |-> "none"]
    /\ sem = 0
    /\ task = [t \in TaskIds |-> NoTask]
    /\ pending = [c \in Cats |-> 0]
    /\ cat_success = [c \in Cats |-> -1]

\* Any cookie file whose JSON is a list of records.
InitCookies ==
    /\ cookieJson \in SeqsUpTo(FileRecords, MaxCookies)
    /\ session = NoSession
    /\ FetchNotRun
    /\ PipelineNotRun
    /\ InventoryNotRun
    /\ BatchNotRun
    /\ DashIdle
    /\ RedownloadNotRun

NextCookies ==
    \/ save_cookies
    \/ PageDownloader_load_cookies
    \/ Scraper_load_cookies
    \/ redownload_load_cookies
    \/ extract_product_links_load_cookies

SpecCookies == InitCookies /\ [][NextCookies]_vars

(***************************************************************************)
(* The inventory grid of a product page: extract_inventory_from_html and   *)
(* add_product_rows of extract_to_excel.py, extract_inventory of           *)
(* scrape_to_excel.py                                                      *)
(***************************************************************************)

\* Most lot fields (quantity spans) in the rows of one page.
MaxLots == 3

\* The colour headings and the size labels of the pages the model draws.
Colors == <<"Red", "Blue">>
Sizes == <<"XS", "M">>

\* The text of a lot field after get_text(strip=True), as a list of
\* characters: numbers, a signed number and text that is not a number.
LotTexts == {<<"5">>, <<"0">>, <<"7">>, <<"-", "3">>, <<"x">>}

DigitChars == <<"0", "1", "2", "3", "4", "5", "6", "7", "8", "9">>

\* str.isdigit() of one character, and its value.
isdigit_char(ch) == \E d \in 1..10 : DigitChars[d] = ch
digit(ch) == (CHOOSE d \in 1..10 : DigitChars[d] = ch) - 1

\* The number a run of digits denotes.
RECURSIVE digits_value(_)
digits_value(t) ==
    IF t = <<>> THEN 0
    ELSE 10 * digits_value(SubSeq(t, 1, Len(t) - 1)) + digit(t[Len(t)])

\* int(text) of Python: an optional sign and at least one digit; anything
\* else raises ValueError.
unsigned(t) == IF t # <<>> /\ t[1] \in {"-", "+"} THEN Tail(t) ELSE t
int_raises(t) ==
    \/ unsigned(t) = <<>>
    \/ \E i \in 1..Len(unsigned(t)) : ~isdigit_char(unsigned(t)[i])
int(t) ==
    IF t # <<>> /\ t[1] = "-" THEN 0 - digits_value(unsigned(t)) ELSE digits_value(unsigned(t))

\* A mutation of total_quantity: a lot that is not a number discards the
\* lots of the row.
RECURSIVE total_quantity_all_or_nothing(_)
total_quantity_all_or_nothing(quantity_spans) ==
    IF \E i \in 1..Len(quantity_spans) : int_raises(quantity_spans[i]) THEN 0
    ELSE IF quantity_spans = <<>> THEN 0
    ELSE int(Head(quantity_spans)) + total_quantity_all_or_nothing(Tail(quantity_spans))

\* The loop over quantity_spans of extract_inventory_from_html:
\* total_quantity += int(quantity_text), a ValueError is passed over.
RECURSIVE total_quantity(_)
total_quantity(quantity_spans) ==
    IF quantity_spans = <<>> THEN 0
    ELSE (IF int_raises(Head(quantity_spans)) THEN 0 ELSE int(Head(quantity_spans)))
         + total_quantity(Tail(quantity_spans))

\* The entry appended to color_inventory for a row (the sku is left out).
inventory_entry(size, quantity) ==
    [size |-> size, available_quantity |-> quantity, in_stock |-> quantity > 0]

\* The loop over the rows of a table: a row without a size span is skipped.
RECURSIVE color_inventory(_)
color_inventory(rows) ==
    IF rows = <<>> THEN <<>>
    ELSE (IF Head(rows).span
          THEN <<inventory_entry(Head(rows).size, total_quantity(Head(rows).lots))>>
          ELSE <<>>) \o color_inventory(Tail(rows))

\* A dict as the list of its items in insertion order; d[k] = v.
dict_set(d, k, v) ==
    IF \E i \in 1..Len(d) : d[i].key = k
    THEN [i \in 1..Len(d) |-> IF d[i].key = k THEN [key |-> k, value |-> v] ELSE d[i]]
    ELSE Append(d, [key |-> k, value |-> v])

\* The loop over accordion_items: an accordion without a heading or
\* without a table is skipped; without a tbody it has no rows.
RECURSIVE inventory_by_color(_, _)
inventory_by_color(accordion_items, d) ==
    IF accordion_items = <<>> THEN d
    ELSE LET accordion == Head(accordion_items)
         IN inventory_by_color(Tail(accordion_items),
                IF ~accordion.heading \/ ~accordion.table THEN d
                ELSE dict_set(d, accordion.color,
                              IF accordion.tbody THEN color_inventory(accordion.rows)
                              ELSE <<>>))

extract_inventory_from_html(s) == inventory_by_color(s, <<>>)

\* The (color, inv_item) pairs of the two nested loops of add_product_rows.
RECURSIVE inventory_items(_)
inventory_items(d) ==
    IF d = <<>> THEN <<>>
    ELSE [j \in 1..Len(Head(d).value) |-> [color |-> Head(d).key, inv_item |-> Head(d).value[j]]]
         \o inventory_items(Tail(d))

\* The cells add_single_inventory_row writes in row r: H the colour, J the
\* size, K the quantity, L 'Yes' or 'No'; inv tells whether it was given an
\* inventory item or None.
add_single_inventory_row(r, current_color, inv, inv_item) ==
    [row |-> r, H |-> current_color, inv |-> inv,
     J |-> IF inv THEN inv_item.size ELSE "",
     K |-> IF inv THEN inv_item.available_quantity ELSE 0,
     L |-> IF inv /\ inv_item.in_stock THEN "Yes" ELSE "No"]

\* The colour of the first variant of the product, which the row of a
\* product without inventory shows.
color_name == "Black"

\* add_product_rows(ws, row_num, ...): the rows written and the next row
\* number it returns.
add_product_rows(r, d) ==
    IF d # <<>>
    THEN LET items == inventory_items(d)
         IN [rows |-> [j \in 1..Len(items) |->
                          add_single_inventory_row(r + j - 1, items[j].color, TRUE,
                                                   items[j].inv_item)],
             next |-> r + Len(items)]
    ELSE [rows |-> <<add_single_inventory_row(r, color_name, FALSE, inventory_entry("", 0))>>,
          next |-> r + 1]

\* re.sub(r'[^\d]', '', text)
digits_only(t) == SelectSeq(t, isdigit_char)

\* text.isdigit()
isdigit(t) == t # <<>> /\ \A i \in 1..Len(t) : isdigit_char(t[i])

\* qty of extract_inventory: the digits of every quantity element, and when
\* that is 0 the cells of the row whose text is a number.
RECURSIVE qty_of_spans(_)
qty_of_spans(qty_els) ==
    IF qty_els = <<>> THEN 0
    ELSE digits_value(digits_only(Head(qty_els))) + qty_of_spans(Tail(qty_els))

RECURSIVE qty_of_cells(_)
qty_of_cells(cells) ==
    IF cells = <<>> THEN 0
    ELSE (IF isdigit(Head(cells)) THEN digits_value(Head(cells)) ELSE 0)
         + qty_of_cells(Tail(cells))

\* (the size cell is left out: no size label the model draws is a number)
qty(row) ==
    IF qty_of_spans(row.lots) # 0 THEN qty_of_spans(row.lots)
    ELSE qty_of_cells(row.lots)

\* The rows of extract_inventory: the size is the text of the size span, or
\* of the first cell, which is empty in a row without the span; a row
\* whose size is empty is skipped.
RECURSIVE items_of(_)
items_of(rows) ==
    IF rows = <<>> THEN <<>>
    ELSE (IF Head(rows).span /\ Head(rows).size # ""
          THEN <<inventory_entry(Head(rows).size, qty(Head(rows)))>>
          ELSE <<>>) \o items_of(Tail(rows))

\* extract_inventory of scrape_to_excel.py: a colour is recorded only if it
\* has items.
RECURSIVE extract_inventory_loop(_, _)
extract_inventory_loop(accordions, d) ==
    IF accordions = <<>> THEN d
    ELSE LET accordion == Head(accordions)
             items == items_of(accordion.rows)
         IN extract_inventory_loop(Tail(accordions),
                IF ~accordion.heading \/ ~accordion.table \/ items = <<>> THEN d
                ELSE dict_set(d, accordion.color, items))

extract_inventory(s) == extract_inventory_loop(s, <<>>)

\* The lists of at most m lot texts, for every m up to MaxLots.
LotSeqs == [m \in 0..MaxLots |-> SeqsUpTo(LotTexts, m)]

\* The rows of a table: the i-th row carries the i-th size label and at
\* most m lot fields; a row without a size span carries no lot field, and
\* a row whose size span has no text carries at most one.
TableRows(i, m) ==
    {[span |-> TRUE, size |-> Sizes[i], lots |-> l] : l \in LotSeqs[m]}
        \cup {[span |-> FALSE, size |-> "", lots |-> <<>>]}
        \cup {[span |-> TRUE, size |-> "", lots |-> l] : l \in LotSeqs[Min(m, 1)]}

RECURSIVE lots_in(_)
lots_in(rows) == IF rows = <<>> THEN 0 ELSE Len(Head(rows).lots) + lots_in(Tail(rows))

\* The tables of at most n rows and m lot fields.
Tables ==
    [n \in 0..Len(Sizes), m \in 0..MaxLots |->
        {<<>>} \cup (IF n < 1 THEN {} ELSE {<<r>> : r \in TableRows(1, m)})
               \cup (IF n < 2 THEN {}
                     ELSE UNION {{<<r1, r2>> : r2 \in TableRows(2, m - Len(r1.lots))} :
                                    r1 \in TableRows(1, m)})]

\* The accordions of a page: one without a heading, one without a table,
\* one whose table has no tbody, and the tables.
Accordions ==
    [c \in {Colors[j] : j \in 1..Len(Colors)}, n \in 0..Len(Sizes), m \in 0..MaxLots |->
        {[heading |-> FALSE, color |-> c, table |-> TRUE, tbody |-> TRUE, rows |-> <<>>],
         [heading |-> TRUE, color |-> c, table |-> FALSE, tbody |-> FALSE, rows |-> <<>>],
         [heading |-> TRUE, color |-> c, table |-> TRUE, tbody |-> FALSE, rows |-> <<>>]}
            \cup {[heading |-> TRUE, color |-> c, table |-> TRUE, tbody |-> TRUE, rows |-> t] :
                     t \in Tables[n, m]}]

\* The accordions of any colour.
AnyAccordion ==
    [n \in 0..Len(Sizes), m \in 0..MaxLots |->
        UNION {Accordions[Colors[j], n, m] : j \in 1..Len(Colors)}]

\* The pages: at most Len(Colors) accordions, Len(Sizes) rows and MaxLots
\* lot fields in all.
Soup(s) ==
    \/ s = <<>>
    \/ \E a \in Accordions[Colors[1], Len(Sizes), MaxLots] :
          \/ s = <<a>>
          \/ \E b \in AnyAccordion[Len(Sizes) - Len(a.rows), MaxLots - lots_in(a.rows)] :
                s = <<a, b>>

inventory_frame == UNCHANGED <<fetchVars, credentials, stale_report, cookieVars, batchVars,
                               dashVars, redownloadVars,
                               ppc, step, stage_rc, prc, loginVars, extractVars>>

\* inventory_data = extract_inventory_from_html(soup)
extract_inventory_from_html_call ==
    /\ ipc = "page"
    /\ ipc' = "extracted"
    /\ inventory_data' = extract_inventory_from_html(soup)
    /\ UNCHANGED <<soup, row_num, ws, dom_inventory>>
    /\ inventory_frame

\* new_row = add_product_rows(ws, current_row, product, inventory, ...)
add_product_rows_call ==
    /\ ipc = "extracted"
    /\ ipc' = "written"
    /\ ws' = add_product_rows(row_num, inventory_data)
    /\ UNCHANGED <<soup, row_num, inventory_data, dom_inventory>>
    /\ inventory_frame

\* inventory = extract_inventory(soup) of scrape_to_excel.py on the page
extract_inventory_call ==
    /\ ipc = "written"
    /\ ipc' = "done"
    /\ dom_inventory' = extract_inventory(soup)
    /\ UNCHANGED <<soup, row_num, inventory_data, ws>>
    /\ inventory_frame

\* Any page, and a sheet whose next free row is 2 (the first product) or
\* later.
InitInventory ==
    /\ Soup(soup)
    /\ row_num \in {2, 3}
    /\ ipc = "page"
    /\ inventory_data = <<>>
    /\ ws = NoSheet
    /\ dom_inventory = <<>>
    /\ FetchNotRun
    /\ PipelineNotRun
    /\ CookiesNotLoaded
    /\ BatchNotRun
    /\ DashIdle
    /\ RedownloadNotRun

NextInventory ==
    \/ extract_inventory_from_html_call
    \/ add_product_rows_call
    \/ extract_inventory_call

SpecInventory == InitInventory /\ [][NextInventory]_vars

(***************************************************************************)
(* extract_to_excel.main over the downloaded pages, the workbook of        *)
(* create_excel_with_all_products, and extract_all_from_dom of             *)
(* scrape_to_excel.py                                                      *)
(***************************************************************************)

\* Most files under data/html the model draws.
MaxFiles == 2

\* The subfolders of data/html: the categories login_and_save_cookies.py
\* can discover, /lululemon/<name> or whats-new.
Subfolders == {"men", "women", "whats-new"}

\* categories = ['accessories', 'men', 'women', 'supplies']
categories == <<"accessories", "men", "women", "supplies">>

\* str.capitalize() of a category name.
capitalize(c) ==
    CASE c = "accessories" -> "Accessories"
      [] c = "men" -> "Men"
      [] c = "women" -> "Women"
      [] c = "supplies" -> "Supplies"
      [] c = "whats-new" -> "Whats-new"

\* The inventory grids of the pages: none, an accordion whose table has no
\* row, and Red with XS (one lot of 5) and M (one lot of 0).
Grids ==
    {<<>>,
     <<[heading |-> TRUE, color |-> "Red", table |-> TRUE, tbody |-> FALSE, rows |-> <<>>]>>,
     <<[heading |-> TRUE, color |-> "Red", table |-> TRUE, tbody |-> TRUE,
        rows |-> <<[span |-> TRUE, size |-> "XS", lots |-> <<<<"5">>>>],
                   [span |-> TRUE, size |-> "M", lots |-> <<<<"0">>>>]>>]>>}

\* A page: its __NEXT_DATA__ script, the name of the product in it, the
\* name its DOM shows and its inventory grid.  next_data is
\*   absent      no such script tag
\*   unparsable  text that json.loads rejects
\*   nopath      JSON without the path to the product
\*   empty       JSON whose product is an empty dict
\*   product     JSON with a product
Pages ==
    {[next_data |-> k, name |-> "", h1 |-> h, grid |-> g] :
        k \in {"absent", "unparsable", "nopath", "empty"}, h \in {"", "Tee"}, g \in Grids}
    \cup {[next_data |-> "product", name |-> n, h1 |-> h, grid |-> g] :
             n \in {"", "Tee"}, h \in {"", "Tee"}, g \in Grids}

\* extract_product_from_html: how many values it returns, the product
\* (None, an empty dict or a dict) and the inventory.
extract_product_from_html(pg) ==
    CASE pg.next_data \in {"absent", "unparsable"} ->
             [arity |-> 3, product |-> "None", name |-> "", inventory |-> <<>>]
      [] pg.next_data = "nopath" ->
             [arity |-> 4, product |-> "None", name |-> "", inventory |-> <<>>]
      [] pg.next_data = "empty" ->
             [arity |-> 4, product |-> "empty", name |-> "",
              inventory |-> extract_inventory_from_html(pg.grid)]
      [] pg.next_data = "product" ->
             [arity |-> 4, product |-> "dict", name |-> pg.name,
              inventory |-> extract_inventory_from_html(pg.grid)]

\* extract_all_from_dom: None when there is neither a name nor inventory.
extract_all_from_dom(pg) ==
    IF pg.h1 = "" /\ extract_inventory(pg.grid) = <<>>
    THEN [applied |-> TRUE, product |-> FALSE, name |-> "", inventory |-> <<>>]
    ELSE [applied |-> TRUE, product |-> TRUE, name |-> pg.h1,
          inventory |-> extract_inventory(pg.grid)]

\* total_quantity of add_summary_product_row
RECURSIVE summary_quantity(_)
summary_quantity(items) ==
    IF items = <<>> THEN 0
    ELSE Head(items).inv_item.available_quantity + summary_quantity(Tail(items))

\* The cells add_summary_product_row writes in row r: B the name, M the
\* total quantity, T the category.
add_summary_product_row(r, product_data) ==
    [row |-> r, B |-> product_data.name,
     M |-> IF product_data.inventory # <<>>
           THEN summary_quantity(inventory_items(product_data.inventory))
           ELSE 0,
     T |-> capitalize(product_data.category)]

\* The workbook after wb.create_sheet for Summary and for each category.
new_workbook ==
    [saved |-> FALSE, summary |-> <<>>, summary_row |-> 2,
     sheets |-> [c \in {categories[j] : j \in 1..Len(categories)} |->
                    [title |-> capitalize(c), rows |-> <<>>, current_row |-> 2, count |-> 0]]]

\* The body of the loop over all_products_data for one record.
add_to_sheets(w, product_data) ==
    LET category == product_data.category
        added == add_product_rows(w.sheets[category].current_row, product_data.inventory)
        w1 == IF category \in DOMAIN w.sheets
              THEN [w EXCEPT !.sheets[category] =
                       [title |-> @.title, rows |-> @.rows \o added.rows,
                        current_row |-> added.next, count |-> @.count + 1]]
              ELSE w
    IN [w1 EXCEPT !.summary = Append(@, add_summary_product_row(w.summary_row, product_data)),
                  !.summary_row = @ + 1]

\* A mutation of add_products: a record is added to the summary only with
\* the rows of its detailed sheet.
RECURSIVE add_products_of_sheets(_, _)
add_products_of_sheets(w, data) ==
    IF data = <<>> THEN w
    ELSE add_products_of_sheets(IF Head(data).category \in DOMAIN w.sheets
                                THEN add_to_sheets(w, Head(data))
                                ELSE w,
                                Tail(data))

\* for product_data in all_products_data: ...
RECURSIVE add_products(_, _)
add_products(w, data) ==
    IF data = <<>> THEN w ELSE add_products(add_to_sheets(w, Head(data)), Tail(data))

\* create_excel_with_all_products(all_products_data, output_file)
create_excel_with_all_products(data) ==
    [add_products(new_workbook, data) EXCEPT !.saved = TRUE]

batch_frame == UNCHANGED <<fetchVars, credentials, stale_report, cookieVars, inventoryVars,
                           dashVars, redownloadVars,
                           ppc, step, stage_rc, prc, loginVars, extractVars>>

\* if not html_files: ... return
main_no_html_files ==
    /\ epc = "loop"
    /\ html_files = <<>>
    /\ epc' = "returned"
    /\ UNCHANGED <<html_files, file_idx, page, log, all_products_data, counts, wb, dom_product>>
    /\ batch_frame

\* One turn of 'for html_file in html_files': the file is read and parsed;
\* unpacking three values into four names raises ValueError, which the
\* except clause counts as failed.
main_loop_file ==
    /\ epc = "loop"
    /\ file_idx < Len(html_files)
    /\ \E pg \in Pages :
          LET r == extract_product_from_html(pg)
              category == html_files[file_idx + 1]
          IN /\ page' = pg
             /\ IF r.arity = 4 /\ r.product = "dict"
                THEN /\ all_products_data' =
                            Append(all_products_data,
                                   [name |-> r.name, inventory |-> r.inventory,
                                    category |-> category])
                     /\ counts' = [counts EXCEPT !.successful = @ + 1]
                     /\ log' = "extracted"
                ELSE /\ counts' = [counts EXCEPT !.failed = @ + 1]
                     /\ log' = IF r.arity = 4 THEN "failed" ELSE "error"
                     /\ UNCHANGED all_products_data
    /\ file_idx' = file_idx + 1
    /\ dom_product' = NotApplied
    /\ UNCHANGED <<html_files, epc, wb>>
    /\ batch_frame

\* if not all_products_data: ... return
main_no_products_data ==
    /\ epc = "loop"
    /\ html_files # <<>>
    /\ file_idx = Len(html_files)
    /\ all_products_data = <<>>
    /\ epc' = "returned"
    /\ UNCHANGED <<html_files, file_idx, page, log, all_products_data, counts, wb, dom_product>>
    /\ batch_frame

\* create_excel_with_all_products(all_products_data, output_file);
\* return output_file
main_create_excel ==
    /\ epc = "loop"
    /\ file_idx = Len(html_files)
    /\ all_products_data # <<>>
    /\ wb' = create_excel_with_all_products(all_products_data)
    /\ epc' = "saved"
    /\ UNCHANGED <<html_files, file_idx, page, log, all_products_data, counts, dom_product>>
    /\ batch_frame

\* scrape_to_excel.py applied to the same page: extract_all_from_dom(html, url)
extract_all_from_dom_call ==
    /\ page # NoPage
    /\ ~dom_product.applied
    /\ dom_product' = extract_all_from_dom(page)
    /\ UNCHANGED <<html_files, epc, file_idx, page, log, all_products_data, counts, wb>>
    /\ batch_frame

\* glob lists the files subfolder by subfolder.
Grouped(f) ==
    \A i, k \in 1..Len(f) : (i < k /\ f[i] = f[k]) => \A j \in i..k : f[j] = f[i]

\* data/html holds at most MaxFiles pages in any of the subfolders; the
\* web folder holds none.
InitBatch ==
    /\ html_files \in SeqsUpTo(Subfolders, MaxFiles)
    /\ Grouped(html_files)
    /\ epc = "loop"
    /\ file_idx = 0
    /\ page = NoPage
    /\ log = "none"
    /\ all_products_data = <<>>
    /\ counts = [successful |-> 0, failed |-> 0]
    /\ wb = NoWorkbook
    /\ dom_product = NotApplied
    /\ FetchNotRun
    /\ PipelineNotRun
    /\ CookiesNotLoaded
    /\ InventoryNotRun
    /\ DashIdle
    /\ RedownloadNotRun

NextBatch ==
    \/ main_no_html_files
    \/ main_loop_file
    \/ main_no_products_data
    \/ main_create_excel
    \/ extract_all_from_dom_call

SpecBatch == InitBatch /\ [][NextBatch]_vars

(***************************************************************************)
(* The dashboard: start_scraping, stop_scraping and the thread of          *)
(* run_backend_pipeline (frontend/app.py)                                  *)
(***************************************************************************)

dash_frame == UNCHANGED <<fetchVars, credentials, stale_report, cookieVars, inventoryVars,
                          batchVars, redownloadVars,
                          ppc, step, stage_rc, prc, loginVars, extractVars>>

\* The flask response of a handler: the request is done with a status code.
respond(r, k, code) == request' = [request EXCEPT ![r] = [kind |-> k, pc |-> "done", code |-> code]]

\* The server takes the next request in order of arrival.
arrives(r) == request[r] = NoRequest /\ \A j \in 1..(r - 1) : request[j] # NoRequest

\* POST /api/start_scraping: "if scraping_active: return ..., 400"; else
\* the handler goes on to its database write test.
start_scraping(r) ==
    /\ arrives(r)
    /\ IF scraping_active
       THEN respond(r, "start", 400)
       ELSE request' = [request EXCEPT ![r] = [kind |-> "start", pc |-> "db_test", code |-> 0]]
    /\ UNCHANGED <<scraping_active, scraping_process, scraping_stats, thread, history>>
    /\ dash_frame

\* The write test of start_scraping: add, flush and rollback of a row that
\* is never committed; an exception gives the response 500.
start_scraping_db_test(r) ==
    /\ request[r].kind = "start"
    /\ request[r].pc = "db_test"
    /\ \/ request' = [request EXCEPT ![r] = [@ EXCEPT !.pc = "accept"]]
       \/ respond(r, "start", 500)
    /\ UNCHANGED <<scraping_active, scraping_process, scraping_stats, thread, history>>
    /\ dash_frame

\* scraping_active = True; scraping_stats.update(status='running', ...);
\* threading.Thread(target=run_backend_pipeline).start(); response 200.
start_scraping_accept(r) ==
    /\ request[r].kind = "start"
    /\ request[r].pc = "accept"
    /\ scraping_active' = TRUE
    /\ scraping_stats' = [scraping_stats EXCEPT !.status = "running"]
    /\ thread' = [thread EXCEPT ![r] = "started"]
    /\ respond(r, "start", 200)
    /\ UNCHANGED <<scraping_process, history>>
    /\ dash_frame

\* POST /api/stop_scraping: "if not scraping_active and not
\* scraping_process: return ..., 400".
stop_scraping(r) ==
    /\ arrives(r)
    /\ IF ~scraping_active /\ scraping_process = "None"
       THEN respond(r, "stop", 400)
       ELSE request' = [request EXCEPT ![r] = [kind |-> "stop", pc |-> "stop", code |-> 0]]
    /\ UNCHANGED <<scraping_active, scraping_process, scraping_stats, thread, history>>
    /\ dash_frame

\* scraping_active = False; "if scraping_process:" terminate it, wait for
\* it and set scraping_process = None; response 200.
stop_scraping_stop(r) ==
    /\ request[r].kind = "stop"
    /\ request[r].pc = "stop"
    /\ scraping_active' = FALSE
    /\ scraping_process' = "None"
    /\ respond(r, "stop", 200)
    /\ UNCHANGED <<scraping_stats, thread, history>>
    /\ dash_frame

\* The thread of run_backend_pipeline: its first statement, os.umask(0) of
\* line 293, reads the name os, which the "import os" of line 298 makes a
\* local of the function, and raises UnboundLocalError before the
\* "with app.app_context(): try: ... finally:" of lines 295-663 is
\* entered.  The thread ends there: it creates no history row, starts no
\* subprocess and resets nothing.
run_backend_pipeline(r) ==
    /\ thread[r] = "started"
    /\ thread' = [thread EXCEPT ![r] = "dead"]
    /\ UNCHANGED <<scraping_active, scraping_process, scraping_stats, request, history>>
    /\ dash_frame

\* The dashboard after startup, before any request.
InitDash ==
    /\ DashIdle
    /\ FetchNotRun
    /\ PipelineNotRun
    /\ CookiesNotLoaded
    /\ InventoryNotRun
    /\ BatchNotRun
    /\ RedownloadNotRun

NextDash ==
    \E r \in Requests :
        \/ start_scraping(r)
        \/ start_scraping_db_test(r)
        \/ start_scraping_accept(r)
        \/ stop_scraping(r)
        \/ stop_scraping_stop(r)
        \/ run_backend_pipeline(r)

SpecDash == InitDash /\ [][NextDash]_vars

\* The server runs every handler it has entered to its response, and every
\* thread that was started gets to run.
FairDash ==
    /\ WF_vars(\E r \in Requests : start_scraping_db_test(r))
    /\ WF_vars(\E r \in Requests : start_scraping_accept(r))
    /\ WF_vars(\E r \in Requests : stop_scraping_stop(r))
    /\ WF_vars(\E r \in Requests : run_backend_pipeline(r))

SpecDashFair == SpecDash /\ FairDash

(***************************************************************************)
(* redownload_incomplete.py: redownload_incomplete_files and               *)
(* redownload_file                                                         *)
(***************************************************************************)

\* Most incomplete files the model draws, and the reasons it gives them.
MaxIncomplete == 3
Reasons == {"Small file size", "Missing inventory table"}

\* The lists scan_for_incomplete_files can return: one item per file, in
\* the order of the scan.
Incomplete(l) ==
    \E n \in 0..MaxIncomplete :
        \E f \in [1..n -> Reasons] : l = [k \in 1..n |-> [pid |-> k, reason |-> f[k]]]

redownload_frame == UNCHANGED <<fetchVars, credentials, stale_report, cookieVars, inventoryVars,
                                batchVars, dashVars, incomplete,
                                ppc, step, stage_rc, prc, loginVars, extractVars>>

\* "if not incomplete: return"; else the cookies are loaded, the browser is
\* launched and the context is created; an exception of the launch leaves
\* the function.
redownload_incomplete_files ==
    /\ redownload.pc = "start"
    /\ IF incomplete = <<>>
       THEN redownload' = [redownload EXCEPT !.pc = "returned"]
       ELSE \/ redownload' = [redownload EXCEPT !.pc = "new_page", !.item = 1,
                                                !.browser = "open", !.context = "open"]
            \/ redownload' = [redownload EXCEPT !.pc = "raised"]
    /\ redownload_frame

\* The loop "for item in incomplete" after redownload_file returned:
\* success += 1 or failed += 1, then the next item, or the end of the loop.
redownload_file_returns(rd, result) ==
    LET counted == IF result THEN [rd EXCEPT !.success = @ + 1]
                   ELSE [rd EXCEPT !.failed = @ + 1]
    IN IF rd.item < Len(incomplete)
       THEN [counted EXCEPT !.item = @ + 1, !.pc = "new_page", !.page = "none"]
       ELSE [counted EXCEPT !.item = @ + 1, !.pc = "close", !.page = "none"]

\* except Exception: "if page:" close it, return False.  page is assigned
\* only by "page = await context.new_page()" inside the try (line 112):
\* when that call raised, "if page" reads an unbound local and raises
\* UnboundLocalError, which leaves redownload_file, the loop and
\* redownload_incomplete_files.
redownload_file_except(rd) ==
    IF rd.page = "none"
    THEN [rd EXCEPT !.pc = "raised"]
    ELSE redownload_file_returns([rd EXCEPT !.page = "closed"], FALSE)

\* page = await context.new_page()
redownload_file_new_page ==
    /\ redownload.pc = "new_page"
    /\ \/ redownload' = [redownload EXCEPT !.page = "open", !.pc = "goto"]
       \/ redownload' = redownload_file_except(redownload)
    /\ redownload_frame

\* await page.goto(item['url'], wait_until='networkidle', timeout=45000)
redownload_file_goto ==
    /\ redownload.pc = "goto"
    /\ \/ redownload' = [redownload EXCEPT !.pc = "wait_table"]
       \/ redownload' = redownload_file_except(redownload)
    /\ redownload_frame

\* The two waits, for 'table tbody' and for the product image, each in its
\* own try with a bare except that logs a warning: found or not, the
\* function goes on.
redownload_file_wait ==
    /\ redownload.pc \in {"wait_table", "wait_image"}
    /\ \E found \in BOOLEAN :
          redownload' = [redownload EXCEPT
                            !.pc = IF @ = "wait_table" THEN "wait_image" ELSE "content"]
    /\ redownload_frame

\* html = await page.content(); await page.close(); the file is written;
\* return True.  An exception of any of them goes to the except clause.
redownload_file_save ==
    /\ redownload.pc = "content"
    /\ \/ redownload' = redownload_file_returns([redownload EXCEPT !.page = "closed"], TRUE)
       \/ redownload' = redownload_file_except(redownload)
    /\ redownload_frame

\* await context.close(); await browser.close(); the summary is logged.
redownload_incomplete_files_close ==
    /\ redownload.pc = "close"
    /\ redownload' = [redownload EXCEPT !.pc = "done", !.context = "closed",
                                        !.browser = "closed"]
    /\ redownload_frame

\* The user confirmed the re-download of the list the scan returned.
InitRedownload ==
    /\ Incomplete(incomplete)
    /\ redownload = [NoRedownload EXCEPT !.pc = "start"]
    /\ FetchNotRun
    /\ PipelineNotRun
    /\ CookiesNotLoaded
    /\ InventoryNotRun
    /\ BatchNotRun
    /\ DashIdle

NextRedownload ==
    \/ redownload_incomplete_files
    \/ redownload_file_new_page
    \/ redownload_file_goto
    \/ redownload_file_wait
    \/ redownload_file_save
    \/ redownload_incomplete_files_close

SpecRedownload == InitRedownload /\ [][NextRedownload]_vars

-----------------------------------------------------------------------------
\* Properties of the fetch scripts, checked under Spec.

\* The work items whose page is opened and not yet closed.
InFlight == {t \in TaskIds : task[t].page = "open"}

\* The work items inside "async with sem".
Holders == {t \in TaskIds : task[t].permit /\ task[t].pc # "done"}

\* C1: within one category, at no instant do more than MAX_CONCURRENT work
\* items have a page opened and not yet closed, and no more than
\* MAX_CONCURRENT hold a permit of the semaphore.
C1_ConcurrencyBound ==
    /\ Cardinality(InFlight) <= MAX_CONCURRENT
    /\ Cardinality(Holders) <= MAX_CONCURRENT
    /\ sem = MAX_CONCURRENT - Cardinality(Holders) \/ pc \notin {"gather"}

\* C1 witness: MAX_CONCURRENT pages are open while another work item waits
\* for a permit.
C1_Witness ==
    /\ Cardinality(InFlight) = MAX_CONCURRENT
    /\ \E t \in TaskIds : task[t].pc = "wait_sem"

\* The categories whose gather() has been started.
Started == {c \in Cats : ctx[c] # "none"}

\* The work items counted in stats so far: those that returned, and those
\* in the except clause, which counts before it closes the page.
Counted ==
    SumLen(urls, Started)
    - SumLen([c \in Cats |-> [j \in 1..pending[c] |-> j]], Started)
    + (IF pc = "gather"
       THEN Cardinality({t \in TaskIds : task[t].pc = "close_err"})
       ELSE 0)

\* The run went through every category and printed its summary.
Completed == pc = "summary" \/ (pc = "exit" /\ browser = "closed" /\ exitCode = 0)

\* C2: every work item is counted exactly once, in done or in fail: at
\* every instant done + fail is the number of work items counted so far,
\* and after a run completes done + fail = total, skipped and raising
\* work items included.
C2_NoItemLost ==
    /\ stats.done + stats.fail = Counted
    /\ Completed => stats.done + stats.fail = stats.total

\* C2 witness: a completed run of three work items or more in which one was
\* skipped because its file existed, one raised and one was fetched.
C2_Witness ==
    /\ pc = "summary"
    /\ stats.total >= 3
    /\ stats.fail >= 1
    /\ \E t \in TaskIds : task[t].pc = "done" /\ task[t].ret = "true" /\ ~task[t].permit
    /\ \E t \in TaskIds : task[t].pc = "done" /\ task[t].ret = "true" /\ task[t].permit

AllPresent == script = "download" /\ cookieFile = "valid" /\ targets(manifest) \subseteq files0

\* C4: a run of the downloader in which every target artifact already
\* exists navigates nowhere, takes no permit and opens no page, counts no
\* failure, and at completion reports done = total.
C4_IdempotentSkip ==
    AllPresent =>
        /\ \A t \in TaskIds : task[t].gotos = 0 /\ ~task[t].permit /\ task[t].page = "none"
        /\ sem \in {0, MAX_CONCURRENT}
        /\ stats.fail = 0
        /\ files = files0
        /\ Completed => stats.done = stats.total

\* C4 witness: such a run of more work items than permits has completed.
C4_Witness ==
    /\ AllPresent
    /\ pc = "summary"
    /\ stats.total > MAX_CONCURRENT
    /\ stats.done = stats.total

RECURSIVE SumSuccess(_)
SumSuccess(S) ==
    IF S = {} THEN 0
    ELSE LET c == CHOOSE x \in S : TRUE
         IN (IF cat_success[c] >= 0 THEN cat_success[c] ELSE 0) + SumSuccess(S \ {c})

\* C5: a failing work item is one counted failure and nothing else: each
\* work item returns True exactly when nothing went wrong with it, the run
\* never ends while a sibling has not reached its outcome, a category's
\* success count is the number of its own faultless work items, and done is
\* the sum of the categories' success counts.
C5_FailureIsolated ==
    /\ \A t \in TaskIds :
          task[t].pc = "done" => (task[t].ret = "true" <=> task[t].fault = "none")
    /\ pc = "exit" => \A c \in Cats : pending[c] = 0
    /\ pc = "ctx_close" =>
          /\ \A t \in Tasks : task[t].pc = "done"
          /\ cat_success[cats[cur]] = Cardinality({t \in Tasks : task[t].fault = "none"})
    /\ pc \in {"cat_loop", "browser_close", "summary"} => stats.done = SumSuccess(Cats)

\* C5 witness: a completed run of the downloader in which one category lost
\* some but not all of its work items to exceptions and the other category
\* lost none.
C5_Witness ==
    /\ script = "download"
    /\ pc = "summary"
    /\ stats.fail >= 1
    /\ \E c, d \in Cats :
          /\ c # d
          /\ cat_success[c] > 0 /\ cat_success[c] < Len(urls[c])
          /\ cat_success[d] > 0 /\ cat_success[d] = Len(urls[d])

\* C6: categories are processed one at a time: when the context of a
\* category has been created, every earlier non-empty category has all its
\* work items returned, its count logged and its context closed, and no
\* later category has a context or a work item.
C6_CategoriesSequential ==
    \A j \in 1..Len(cats) :
        ctx[cats[j]] # "none" =>
            /\ \A i \in 1..(j - 1) :
                  /\ pending[cats[i]] = 0
                  /\ ctx[cats[i]] \in {"none", "closed"}
                  /\ ctx[cats[i]] = "none" <=> urls[cats[i]] = <<>>
                  /\ urls[cats[i]] # <<>> => cat_success[cats[i]] >= 0
            /\ ctx[cats[j]] = "open" =>
                  \A k \in (j + 1)..Len(cats) :
                      ctx[cats[k]] = "none" /\ pending[cats[k]] = 0

\* C6 witness: work items of the second category are in flight after the
\* first category's context was closed.
C6_Witness ==
    /\ Len(cats) = 2
    /\ cur = 2
    /\ ctx[cats[1]] = "closed"
    /\ ctx[cats[2]] = "open"
    /\ \E t \in TaskIds : task[t].page = "open"

-----------------------------------------------------------------------------
\* Properties of the pipeline, checked under SpecPipeline.

\* Cookie files that are absent, empty or malformed.
BadSession == {"missing", "empty", "notjson", "badrecord"}

\* C8: a cookie file that is absent, empty or malformed is fatal: the fetch
\* script that finds it, with the manifests in place, ends with a non-zero
\* exit status and the pipeline starts no later stage.
C8_SessionErrorFatal ==
    (cookieFile \in BadSession /\ csv_files # {} /\ pc = "exit" /\ ppc # "completed") =>
        /\ exitCode # 0
        /\ stage_rc[3] = -2

\* The browser launch of the fetch script raised.
BrowserLaunchFailed == pc = "exit" /\ cookies /\ stats.total > 0 /\ browser = "none"

\* C9: a launch failure aborts the run: when setup_driver of the login
\* stage or the browser launch of the fetch stage fails, the stage exits
\* non-zero, run_pipeline starts no later stage and does not complete.
C9_LaunchFailureAborts ==
    /\ driver = "failed" =>
          /\ lpc = "exit" => lrc # 0
          /\ stage_rc[2] = -2
          /\ ppc # "completed"
    /\ (BrowserLaunchFailed /\ ppc # "none") =>
          /\ exitCode # 0
          /\ stage_rc[3] = -2
          /\ ppc # "completed"

-----------------------------------------------------------------------------
\* Properties of the cookie loaders, checked under SpecCookies.

\* The sameSite a record of the file carries, "absent" without the key.
file_same_site(i) == get(cookieJson[i], "sameSite", "absent")

\* The sameSite the loaded cookie carries, "absent" without the key.
loaded_same_site(i) == get(session.cookies[i], "sameSite", "absent")

\* C10 as stated: for every loader, a sameSite outside {Strict, Lax, None}
\* is omitted from the loaded cookie and never makes the load fail, and a
\* value of the set is passed through unchanged.
C10_InvalidSameSiteOmitted ==
    session.by # "none" =>
        /\ has_name_value(cookieJson) => session.ok
        /\ session.ok =>
              /\ Len(session.cookies) = Len(cookieJson)
              /\ \A i \in 1..Len(cookieJson) :
                    loaded_same_site(i) =
                        IF file_same_site(i) \in SameSitePolicies
                        THEN file_same_site(i)
                        ELSE "absent"

\* C10 amended: a sameSite outside {Strict, Lax, None} never makes the
\* load fail and never reaches the loaded cookie: the loaders of
\* download_by_category.py, scrape_to_excel.py and redownload_incomplete.py
\* omit the field, load_cookies of extract_product_links.py replaces the
\* value by 'Lax'; a value of the set is passed through unchanged.
C10_InvalidSameSiteNormalized ==
    session.by # "none" =>
        /\ has_name_value(cookieJson) => session.ok
        /\ session.ok =>
              /\ Len(session.cookies) = Len(cookieJson)
              /\ \A i \in 1..Len(cookieJson) :
                    loaded_same_site(i) =
                        IF file_same_site(i) \in SameSitePolicies \cup {"absent"}
                        THEN file_same_site(i)
                        ELSE IF session.by = "extract_product_links"
                        THEN "Lax"
                        ELSE "absent"

\* C10 witness: PageDownloader.load_cookies has loaded a file that
\* save_cookies wrote, with one cookie whose sameSite is "unspecified",
\* omitted, and one whose sameSite is "Strict", kept.
C10_Witness ==
    /\ session.by = "download_by_category"
    /\ session.ok
    /\ \E i, j \in 1..Len(cookieJson) :
          /\ "storeId" \in DOMAIN cookieJson[i]
          /\ file_same_site(i) = "unspecified"
          /\ loaded_same_site(i) = "absent"
          /\ file_same_site(j) = "Strict"
          /\ loaded_same_site(j) = "Strict"

-----------------------------------------------------------------------------
(***************************************************************************)
(* Claims about the inventory grid (SpecInventory)                         *)
(***************************************************************************)

\* The (color, size) pairs of an inventory, and those of its first n
\* colours.
RECURSIVE PairsBefore(_, _)
PairsBefore(d, n) == IF n = 0 THEN 0 ELSE PairsBefore(d, n - 1) + Len(d[n].value)

Pairs(d) == PairsBefore(d, Len(d))

\* add_product_rows has been applied to the record.
RowsWritten == ipc \in {"written", "done"}

\* C11: a record with a non-empty inventory gets exactly one row per
\* (color, size) pair, in order, each with the pair's in-stock flag; a
\* record with an empty inventory gets exactly one row; so every record
\* gets at least one row, the rows are consecutive from the starting row and
\* the returned next row is the starting row plus the number of rows
\* written.
C11_RowExpansion ==
    RowsWritten =>
        /\ inventory_data # <<>> =>
              /\ Len(ws.rows) = Pairs(inventory_data)
              /\ \A i \in 1..Len(inventory_data) : \A j \in 1..Len(inventory_data[i].value) :
                    LET r == ws.rows[PairsBefore(inventory_data, i - 1) + j]
                        e == inventory_data[i].value[j]
                    IN /\ r.H = inventory_data[i].key
                       /\ r.J = e.size
                       /\ (r.L = "Yes") = e.in_stock
        /\ inventory_data = <<>> => Len(ws.rows) = 1
        /\ Len(ws.rows) >= 1
        /\ \A k \in 1..Len(ws.rows) : ws.rows[k].row = row_num + k - 1
        /\ ws.next = row_num + Len(ws.rows)

\* Every entry of an inventory is non-negative and in stock exactly when
\* its quantity is positive.
EntriesSound(d) ==
    \A i \in 1..Len(d) : \A j \in 1..Len(d[i].value) :
        /\ d[i].value[j].available_quantity >= 0
        /\ d[i].value[j].in_stock = (d[i].value[j].available_quantity > 0)

\* C12: every inventory entry the two extractors produce has a quantity
\* >= 0 and is in stock exactly when the quantity is > 0, whatever the text
\* of the lot fields.
C12_QuantityInvariant ==
    /\ ipc # "page" => EntriesSound(inventory_data)
    /\ ipc = "done" => EntriesSound(dom_inventory)

\* The number a lot text denotes, 0 for text that is not a number.
Denoted(t) ==
    CASE t = <<"5">> -> 5
      [] t = <<"0">> -> 0
      [] t = <<"7">> -> 7
      [] t = <<"-", "3">> -> 0 - 3
      [] OTHER -> 0

RECURSIVE SumDenoted(_)
SumDenoted(lots) == IF lots = <<>> THEN 0 ELSE Denoted(Head(lots)) + SumDenoted(Tail(lots))

\* The accordion i of the page is read, and no later accordion replaces
\* the entries of its colour.
Read(i) == soup[i].heading /\ soup[i].table
Kept(i) == Read(i) /\ \A k \in (i + 1)..Len(soup) : ~(Read(k) /\ soup[k].color = soup[i].color)

\* The entries inventory_data holds for colour c.
EntriesOf(c) ==
    LET i == CHOOSE i \in 1..Len(inventory_data) : inventory_data[i].key = c
    IN inventory_data[i].value

IsSizeRow(row) == row.span

\* C13: the quantity of a size row is the sum of the numbers of all its lot
\* fields; a lot field whose text is not a number adds nothing and the
\* other lot fields of the row still count.
C13_QuantityIsSumOfLots ==
    ipc # "page" =>
        \A i \in 1..Len(soup) : Kept(i) =>
            LET sized == SelectSeq(IF soup[i].tbody THEN soup[i].rows ELSE <<>>, IsSizeRow)
            IN /\ \E k \in 1..Len(inventory_data) : inventory_data[k].key = soup[i].color
               /\ Len(EntriesOf(soup[i].color)) = Len(sized)
               /\ \A j \in 1..Len(sized) :
                     /\ EntriesOf(soup[i].color)[j].size = sized[j].size
                     /\ EntriesOf(soup[i].color)[j].available_quantity = SumDenoted(sized[j].lots)

\* A row with the lot fields 5, 'x', 7 has been extracted with quantity 12.
C13_Witness ==
    /\ ipc = "extracted"
    /\ Len(soup) = 1 /\ Kept(1) /\ Len(soup[1].rows) = 1
    /\ soup[1].rows[1].span
    /\ soup[1].rows[1].lots = <<<<"5">>, <<"x">>, <<"7">>>>
    /\ inventory_data[1].value[1].available_quantity = 12

-----------------------------------------------------------------------------
(***************************************************************************)
(* Claims about the extraction of the pages and the workbook (SpecBatch)   *)
(***************************************************************************)

\* Either strategy gives the page a non-empty product name; inventory data
\* (a size row of some colour) is found on the page.
HasName(pg) == (pg.next_data = "product" /\ pg.name # "") \/ pg.h1 # ""
HasInventory(pg) ==
    Pairs(extract_inventory_from_html(pg.grid)) > 0 \/ Pairs(extract_inventory(pg.grid)) > 0

\* The structured payload of the page is absent or cannot be parsed.
NoPayload(pg) == pg.next_data \in {"absent", "unparsable"}

\* C14: a page gives no record and is counted as failed only if neither
\* strategy gives a non-empty product name and no inventory data was found;
\* a page without a usable structured payload but with size/quantity rows
\* still gives a record with a non-empty inventory.
C14_FailureOnlyWithoutData ==
    /\ log \in {"failed", "error"} => ~HasName(page) /\ ~HasInventory(page)
    /\ (dom_product.applied /\ ~dom_product.product) => ~HasName(page) /\ ~HasInventory(page)
    /\ (page # NoPage /\ NoPayload(page) /\ HasInventory(page)) =>
          /\ log = "extracted"
          /\ all_products_data[Len(all_products_data)].inventory # <<>>

\* C15: the summary has exactly one row per extracted record, in order,
\* whatever the record's category and however many variants it has.
C15_SummaryRowPerProduct ==
    wb.saved =>
        /\ Len(wb.summary) = Len(all_products_data)
        /\ \A k \in 1..Len(wb.summary) :
              /\ wb.summary[k].row = k + 1
              /\ wb.summary[k].B = all_products_data[k].name
              /\ wb.summary[k].T = capitalize(all_products_data[k].category)

\* A workbook whose summary has two rows for a record of two variants and a
\* record of a category without a detailed sheet.
C15_Witness ==
    /\ wb.saved
    /\ Len(all_products_data) = 2
    /\ Pairs(all_products_data[1].inventory) = 2
    /\ all_products_data[2].category = "whats-new"
    /\ Len(wb.summary) = 2
    /\ Len(wb.sheets[all_products_data[1].category].rows) = 2

\* The records of category c.
RecordsOf(c) ==
    Cardinality({k \in 1..Len(all_products_data) : all_products_data[k].category = c})

\* C16: every category the fetch stage left pages for has a detailed sheet
\* in the saved workbook, and every record is added to the sheet of its own
\* category.
C16_SheetPerCategory ==
    wb.saved =>
        /\ \A i \in 1..Len(html_files) : html_files[i] \in DOMAIN wb.sheets
        /\ \A k \in 1..Len(all_products_data) :
              /\ all_products_data[k].category \in DOMAIN wb.sheets
              /\ wb.sheets[all_products_data[k].category].count
                    = RecordsOf(all_products_data[k].category)

-----------------------------------------------------------------------------
(***************************************************************************)
(* Claims about link discovery and the report (SpecPipeline)               *)
(***************************************************************************)

\* C17: discover_categories never leaves login_and_save_cookies.py without
\* categories: whenever it is run, on success or on any failure, main goes
\* on to link discovery with a non-empty set of categories.
C17_FallbackOnAnyFailure ==
    [][lpc = "discover" => (lpc' = "extract_links" /\ lcats' # {})]_vars

\* C18: a category whose link discovery fails or finds nothing gives an
\* empty set of links for that category only and the run continues: every
\* step of the loop over the categories processes one category, writes its
\* manifest when it has links, leaves the other categories alone, and the
\* loop goes on to the next category or to save_cookies.
C18_DiscoveryFailureIsolated ==
    [][lpc = "extract_links" =>
          /\ lpc' \in {"extract_links", "save_cookies"}
          /\ \E c \in lcats :
                /\ ~category_data[c].done
                /\ category_data'[c].done
                /\ category_data'[c].links # <<>> =>
                      manifest'[c] = CsvFile(category_data'[c].links)
                /\ \A d \in Cats \ {c} :
                      manifest'[d] = manifest[d] /\ category_data'[d] = category_data[d]]_vars

\* C19: a run that extracts no record creates no report, and the final
\* summary of run_pipeline.py reports no report file for that run.
C19_NoReportWithoutRecords ==
    (ppc = "completed" /\ ~excel) => ~report_logged

-----------------------------------------------------------------------------
(***************************************************************************)
(* Claims about pages and permits of the fetch (Spec)                      *)
(***************************************************************************)

\* The work items that have acquired a permit, now or earlier.
Acquired == {t \in TaskIds : task[t].permit}

-----------------------------------------------------------------------------
(***************************************************************************)
(* Claims about the order of the steps of run_pipeline.py (SpecPipeline)   *)
(***************************************************************************)

\* The steps whose child process has been started.
StartedSteps == {k \in Steps : stage_rc[k] # -2}

\* C21: the steps run strictly in sequence: a step is started only after
\* the one before it exited with code 0; at the first step that exits
\* non-zero the pipeline exits with failure, no later step is started, and
\* from then on the cookie file, the manifests and the pages on disk stay
\* as they are (cleanup_temporary_files does not run); the cleanup runs
\* only after all steps exited with 0.
C21_StepsInSequence ==
    /\ [](/\ \A k \in Steps : (k \in StartedSteps /\ k > 1) => stage_rc[k - 1] = 0
          /\ \A k \in Steps : (k \in StartedSteps /\ stage_rc[k] \notin {0, -1}) =>
                /\ ppc = "failed" /\ prc = 1
                /\ \A j \in Steps : j > k => j \notin StartedSteps
          /\ ppc \in {"cleanup", "completed"} => \A k \in Steps : stage_rc[k] = 0)
    /\ [][ppc = "failed" => UNCHANGED <<cookieFile, manifest, files, stage_rc>>]_vars
    /\ [][<<cookieFile, manifest, files>> # <<cookieFile', manifest', files'>> =>
             \/ ppc = "child" /\ ppc' = "child"
             \/ ppc = "cleanup" /\ \A k \in Steps : stage_rc[k] = 0]_vars

\* C21 witness: the login succeeded, the download exited non-zero and the
\* pipeline failed there with the cookie file and the manifests of the
\* login still on disk and the third step never started.
C21_Witness ==
    /\ ppc = "failed"
    /\ stage_rc[1] = 0
    /\ stage_rc[2] \notin {0, -1, -2}
    /\ stage_rc[3] = -2
    /\ cookieFile # "missing"
    /\ \E c \in Cats : manifest[c].present

-----------------------------------------------------------------------------
(***************************************************************************)
(* Claims about the readiness wait of scrape_page (Spec)                   *)
(***************************************************************************)

\* The work items whose readiness wait timed out and whose page is in use.
TimedOut == {t \in TaskIds : task[t].ready = "timeout"}

\* C22: exceeding the timeout of the readiness wait is not a failure: the
\* wait ends, marker found or not, with the work item going on to read the
\* page, nothing counted and nothing returned; a work item whose wait timed
\* out reads and closes its page like any other, and when it is counted as
\* failed it is for an error raised afterwards or for a page without data.
C22_ReadinessTimeoutSoft ==
    /\ [][\A t \in TaskIds :
             (task[t].pc = "wait_selector" /\ task'[t] # task[t]) =>
                /\ task'[t].pc = "content"
                /\ task'[t].ready \in {"found", "timeout"}
                /\ task'[t].page = "open"
                /\ task'[t].fault = "none"
                /\ task'[t].ret = "none"
                /\ stats' = stats]_vars
    /\ [](\A t \in TimedOut :
             /\ task[t].pc \in {"content", "close", "close_err"}
             /\ task[t].pc \in {"content", "close"} => task[t].fault = "none")
    /\ [][\A t \in TimedOut :
             task'[t].ret = "false" => task'[t].fault \in {"raise", "nodata"}]_vars

\* C22 witness: the readiness wait of a scraped page timed out, its HTML
\* has been read and the page is being closed before the extraction, with
\* nothing counted as failed.
C22_Witness ==
    /\ script = "scrape"
    /\ stats.fail = 0
    /\ \E t \in TimedOut : task[t].pc = "close" /\ task[t].page = "open"

-----------------------------------------------------------------------------
(***************************************************************************)
(* Claims about the artifacts of download_by_category.py (Spec)            *)
(***************************************************************************)

\* The work items of the current category that have navigated to their URL.
Fetched == {t \in Tasks : task[t].gotos > 0}

\* C23: artifacts are one file per product, keyed by the last path segment
\* of the URL: no two work items of a category fetch the same artifact
\* file in one run, and after a run the number of artifact files of the
\* manifests equals the number of items counted as done.
C23_OneArtifactPerItem ==
    /\ (script = "download" /\ pc = "gather") =>
          \A t, u \in Fetched : t # u => output_file(t) # output_file(u)
    /\ (script = "download" /\ Completed) =>
          Cardinality(files \cap targets(manifest)) = stats.done

-----------------------------------------------------------------------------
(***************************************************************************)
(* Claims about rows without a size label (SpecInventory)                  *)
(***************************************************************************)

\* The row has a resolvable size label: a size element with text.
Labelled(row) == row.span /\ row.size # ""

\* No entry of the inventory has an empty size.
NoUnlabelledEntry(d) ==
    \A i \in 1..Len(d) : \A j \in 1..Len(d[i].value) : d[i].value[j].size # ""

\* C24: a row without a resolvable size label (no size element, or one
\* with empty text) is skipped by both extractors: it adds no entry, so no
\* entry has an empty size and a colour has as many entries as its table
\* has labelled rows.
C24_UnlabelledRowSkipped ==
    /\ ipc # "page" =>
          /\ NoUnlabelledEntry(inventory_data)
          /\ \A i \in 1..Len(soup) : Kept(i) =>
                Len(EntriesOf(soup[i].color)) =
                   Len(SelectSeq(IF soup[i].tbody THEN soup[i].rows ELSE <<>>, Labelled))
    /\ ipc = "done" => NoUnlabelledEntry(dom_inventory)

-----------------------------------------------------------------------------
(***************************************************************************)
(* Claims about the dashboard (SpecDash, SpecDashFair)                     *)
(***************************************************************************)

\* The threads of run_backend_pipeline that are alive, and the start
\* requests that were accepted.
AliveThreads == {r \in Requests : thread[r] = "started"}
AcceptedRuns == {r \in Requests : request[r].kind = "start" /\ request[r].code = 200}

\* C25: at most one pipeline run exists at any time: whatever the
\* interleaving of the start and stop requests, at most one thread of
\* run_backend_pipeline is alive and the process handle belongs to it, and
\* a start request that finds a run active is answered 400 and changes
\* nothing.
C25_AtMostOneRun ==
    /\ [](Cardinality(AliveThreads) <= 1)
    /\ [](scraping_process # "None" => scraping_process \in AliveThreads)
    /\ [][\A r \in Requests :
             (request[r] = NoRequest /\ request'[r].kind = "start" /\ scraping_active) =>
                /\ request'[r].code = 400
                /\ UNCHANGED <<scraping_active, scraping_process, scraping_stats, thread,
                               history>>]_vars

\* The dashboard is idle.
Idle == ~scraping_active /\ scraping_process = "None" /\ scraping_stats.status = "idle"

\* C26: every run start_scraping accepted eventually returns the dashboard
\* to idle, whatever the outcome of its thread: scraping_active False,
\* scraping_process None and status 'idle'.
C26_EventuallyIdle ==
    \A r \in Requests : [](r \in AcceptedRuns => <>Idle)

\* The runs the user stopped: accepted runs followed by an accepted stop
\* request, once their thread has ended and every handler has responded.
Quiescent ==
    /\ AliveThreads = {}
    /\ \A r \in Requests : request[r].pc \in {"none", "done"}
StoppedRuns ==
    {r \in AcceptedRuns :
        \E s \in Requests : s > r /\ request[s].kind = "stop" /\ request[s].code = 200}

\* C27: a run stopped by the user is recorded as 'cancelled': when its
\* thread has ended its history row has the status 'cancelled', and at no
\* time after the stop is it 'failed' or 'completed'.
C27_StoppedIsCancelled ==
    /\ Quiescent => \A r \in StoppedRuns : history[r] = "cancelled"
    /\ \A r \in StoppedRuns : history[r] \notin {"failed", "completed"}

-----------------------------------------------------------------------------
(***************************************************************************)
(* Claims about redownload_incomplete.py (SpecRedownload)                  *)
(***************************************************************************)

\* redownload_incomplete_files has ended, by a return or by an exception,
\* after it launched the browser.
RedownloadEnded == redownload.pc \in {"done", "raised"} /\ redownload.item > 0

\* C30: a failure while re-downloading one file, a failure to open the
\* page included, is counted as failed for that file only and does not
\* stop the loop: when the function ends every incomplete file has been
\* attempted, success + failed is the number of incomplete files, and the
\* context and the browser have been closed.
C30_RedownloadFailureIsolated ==
    /\ redownload.success + redownload.failed <= Len(incomplete)
    /\ RedownloadEnded =>
          /\ redownload.item = Len(incomplete) + 1
          /\ redownload.success + redownload.failed = Len(incomplete)
          /\ redownload.context = "closed"
          /\ redownload.browser = "closed"

=============================================================================
